---- MODULE Spec2Model ----
(***************************************************************************)
(* The incremental-analysis pipeline of explain: discovery and parsing of  *)
(* a source tree into entities, the invalidation decision, the sequential  *)
(* provider calls with their retry loop, the changelog and the cache file  *)
(* that carries explanations from one run to the next.                     *)
(*                                                                         *)
(* Strings are TLA+ strings and string concatenation is \o.  A JavaScript  *)
(* object is a sequence of [k, v] pairs with distinct keys, in insertion   *)
(* order, so that Object.keys and JSON.stringify see the order the code    *)
(* sees.  sha256 is modelled as a collision-free function of its input.    *)
(***************************************************************************)
EXTENDS Integers, Sequences, FiniteSets, TLC

VARIABLES
  main,             \* which main() runs: "cli.ts" or "part_003"
  cacheFile,        \* <repo>/.explain/cache.json on disk
  pc,               \* position of main()
  args,             \* [force, model]: CLI flag and config.llm.model
  fileHashes,       \* main: fileHashes
  entities,         \* main: entities (without their explanation)
  explanation,      \* main: entities[n].explanation, by position
  previousCache,    \* main: previousCache
  explanationCache, \* main: explanationCache
  errors,           \* main: errors
  i,                \* position of the for-of loop over entities
  call,             \* the provider call in flight and its retry state
  extras,           \* part_003: projectSummary, domains and their cache keys
  report,           \* what writeJsonReport wrote in this run
  exit,             \* how the process ended
  run,              \* bookkeeping on the current run: the tree it analysed,
                    \* the entities the provider was called for, the decisions
  hist,             \* bookkeeping on the completed runs before it
  probe             \* a function of the program applied on its own: what it
                    \* is given and what it returns

vars == <<main, cacheFile, pc, args, fileHashes, entities, explanation,
          previousCache, explanationCache, errors, i, call, extras, report,
          exit, run, hist, probe>>

----------------------------------------------------------------------------
(* JavaScript values *)

Undefined == "undefined"

EmptyObject == <<>>

RECURSIVE IndexOf(_, _, _)
IndexOf(o, k, n) ==
  IF n > Len(o) THEN 0
  ELSE IF o[n].k = k THEN n
  ELSE IndexOf(o, k, n + 1)

Has(o, k) == IndexOf(o, k, 1) # 0

Get(o, k) == IF Has(o, k) THEN o[IndexOf(o, k, 1)].v ELSE Undefined

Put(o, k, v) ==
  IF Has(o, k)
  THEN [o EXCEPT ![IndexOf(o, k, 1)] = [k |-> k, v |-> v]]
  ELSE Append(o, [k |-> k, v |-> v])

Keys(o) == [n \in 1..Len(o) |-> o[n].k]

KeySet(o) == {o[n].k : n \in 1..Len(o)}

RECURSIVE FromEntries(_)
FromEntries(pairs) ==
  IF pairs = <<>> THEN EmptyObject
  ELSE LET front == FromEntries(SubSeq(pairs, 1, Len(pairs) - 1))
           p == pairs[Len(pairs)]
       IN Put(front, p.k, p.v)

Range(s) == {s[n] : n \in 1..Len(s)}

RECURSIVE Filter(_, _)
Filter(s, keep) ==
  IF s = <<>> THEN <<>>
  ELSE IF Head(s) \in keep THEN <<Head(s)>> \o Filter(Tail(s), keep)
  ELSE Filter(Tail(s), keep)

----------------------------------------------------------------------------
(* utils.ts, llm.ts: hashing and the provider's constants *)

sha256(input) == "sha256(" \o input \o ")"

PROMPT_VERSION == "v1"

maxAttempts == 3

FailedText == "Explanation unavailable due to provider error."

----------------------------------------------------------------------------
(* The source trees of the model: two paths, and three file contents.  srcG *)
(* is srcF with the arrow function renamed; srcFH is srcF with a second     *)
(* arrow function added on line 2.  From one tree to the next a file is     *)
(* edited around an untouched entity (srcFH to srcF), an entity is renamed  *)
(* (srcF to srcG and back), an entity and a file appear or disappear, and   *)
(* two entities of one run have the same text (a.ts and b.ts of srcF).      *)

Absent == "<absent>"

FilePaths == {"a.ts", "b.ts"}

SortedPaths == <<"a.ts", "b.ts">>

srcF == "const f = () => 1;"

srcG == "const g = () => 1;"

srcFH == "const f = () => 1;\nconst h = () => 2;"

Tree(a, b) == [p \in FilePaths |-> IF p = "a.ts" THEN a ELSE b]

Trees ==
  { Tree(srcFH, Absent), Tree(srcF, srcF), Tree(srcG, srcF) }

Models == {"gpt-4o-mini"}

Texts == {"t1", "t2"}

RequestErrors == {"timeout"}

----------------------------------------------------------------------------
(* parser.ts *)

CapitalizedNames == {"App", "G"}

isLikelyComponent(name) == name \in CapitalizedNames

symbolKindFromNode(node, name) ==
  IF node.type \in {"FunctionDeclaration", "ArrowFunction"}
  THEN (IF isLikelyComponent(name) THEN "component" ELSE "function")
  ELSE IF node.type = "ClassDeclaration" THEN "class"
  ELSE IF node.type = "MethodDeclaration" THEN "method"
  ELSE IF node.type = "InterfaceDeclaration" THEN "interface"
  ELSE IF node.type = "TypeAliasDeclaration" THEN "type"
  ELSE IF node.type = "EnumDeclaration" THEN "enum"
  ELSE "const"

\* stableInputOf without the name: what an id would be if it were the hash of
\* the place and the text alone
stableInputWithoutName(filePath, name, kind, loc, text) ==
  filePath \o ":" \o kind \o ":" \o ToString(loc.startLine)
    \o ":" \o ToString(loc.endLine) \o ":" \o text

stableInputOf(filePath, name, kind, loc, text) ==
  filePath \o ":" \o name \o ":" \o kind \o ":" \o ToString(loc.startLine)
    \o ":" \o ToString(loc.endLine) \o ":" \o text

buildEntity(filePath, node, name, exported) ==
  LET loc == [startLine |-> node.startLine, endLine |-> node.endLine]
      kind == symbolKindFromNode(node, name)
      stableInput == stableInputOf(filePath, name, kind, loc, node.text)
  IN [ id |-> sha256(stableInput),
       filePath |-> filePath,
       name |-> name,
       kind |-> kind,
       exported |-> exported,
       loc |-> loc,
       contentHash |-> sha256(node.text),
       snippet |-> node.text ]

Arrow(name, line, text) ==
  [type |-> "ArrowFunction", name |-> name, startLine |-> line,
   endLine |-> line, text |-> text, exported |-> FALSE]

VariableDeclarations(content) ==
  IF content = srcF THEN <<Arrow("f", 1, "() => 1")>>
  ELSE IF content = srcG THEN <<Arrow("g", 1, "() => 1")>>
  ELSE IF content = srcFH
  THEN <<Arrow("f", 1, "() => 1"), Arrow("h", 2, "() => 2")>>
  ELSE <<>>

extractFunctionDeclarations(filePath, content) ==
  LET decls == VariableDeclarations(content)
  IN [n \in 1..Len(decls) |->
        buildEntity(filePath, decls[n], decls[n].name, decls[n].exported)]

RECURSIVE Flat(_)
Flat(ss) == IF ss = <<>> THEN <<>> ELSE Head(ss) \o Flat(Tail(ss))

discoverFiles(tree) ==
  LET present == Filter(SortedPaths, {p \in FilePaths : tree[p] # Absent})
  IN [n \in 1..Len(present) |->
        [path |-> present[n], sha256 |-> sha256(tree[present[n]]),
         content |-> tree[present[n]]]]

parseFiles(files) ==
  [n \in 1..Len(files) |->
     [filePath |-> files[n].path,
      entities |-> extractFunctionDeclarations(files[n].path, files[n].content)]]

----------------------------------------------------------------------------
(* cache.ts *)

Fields ==
  {"fileHashes", "entityHashes", "explanations", "projectSummaries",
   "domainClusters", "lastSuccessfulSnapshot"}

NoLast == [entityHashes |-> EmptyObject, entityIds |-> <<>>]

NullCache ==
  [isNull |-> TRUE, has |-> {}, snapshotHash |-> "", fileHashes |-> EmptyObject,
   entityHashes |-> EmptyObject, explanations |-> EmptyObject,
   projectSummaries |-> EmptyObject, domainClusters |-> EmptyObject,
   lastSuccessfulSnapshot |-> NoLast]

readCache(file) ==
  IF file.state = "missing" THEN NullCache
  ELSE IF file.state \in {"unreadable", "invalid"} THEN NullCache
  ELSE file.json

createExplanationCacheKey(entityHash, model, promptVersion) ==
  entityHash \o ":" \o model \o ":" \o promptVersion

Returned(b) == [threw |-> FALSE, value |-> b]

TypeError == [threw |-> TRUE, value |-> FALSE]

\* shouldExplainEntity without lines 40-45: the entity's own hash decides alone
shouldExplainEntityWithoutFileGate(entity, hashes, previous, force) ==
  IF force \/ previous.isNull THEN Returned(TRUE)
  ELSE IF "entityHashes" \notin previous.has THEN TypeError
  ELSE IF ~Has(previous.entityHashes, entity.id) THEN Returned(TRUE)
  ELSE Returned(Get(previous.entityHashes, entity.id) # entity.contentHash)

\* shouldExplainEntity with line 36 reading only !previousCache
shouldExplainEntityWithoutForce(entity, hashes, previous, force) ==
  IF previous.isNull THEN Returned(TRUE)
  ELSE IF "fileHashes" \notin previous.has THEN TypeError
  ELSE IF \/ ~Has(previous.fileHashes, entity.filePath)
          \/ Get(previous.fileHashes, entity.filePath) = ""
          \/ Get(previous.fileHashes, entity.filePath) # Get(hashes, entity.filePath)
       THEN Returned(TRUE)
       ELSE IF "entityHashes" \notin previous.has THEN TypeError
       ELSE IF ~Has(previous.entityHashes, entity.id) THEN Returned(TRUE)
       ELSE Returned(Get(previous.entityHashes, entity.id) # entity.contentHash)

shouldExplainEntity(entity, hashes, previous, force) ==
  IF force \/ previous.isNull THEN Returned(TRUE)
  ELSE IF "fileHashes" \notin previous.has THEN TypeError
  ELSE LET currentFileHash == Get(hashes, entity.filePath)
       IN IF \/ ~Has(previous.fileHashes, entity.filePath)
             \/ Get(previous.fileHashes, entity.filePath) = ""
             \/ Get(previous.fileHashes, entity.filePath) # currentFileHash
          THEN Returned(TRUE)
          ELSE IF "entityHashes" \notin previous.has THEN TypeError
          ELSE IF ~Has(previous.entityHashes, entity.id) THEN Returned(TRUE)
          ELSE Returned(Get(previous.entityHashes, entity.id) # entity.contentHash)

EntityHashesOf(ents) ==
  FromEntries([n \in 1..Len(ents) |-> [k |-> ents[n].id, v |-> ents[n].contentHash]])

RECURSIVE stringifyHashes(_)
stringifyHashes(o) ==
  IF o = <<>> THEN ""
  ELSE "[" \o Head(o).k \o "=" \o Head(o).v \o "]" \o stringifyHashes(Tail(o))

RECURSIVE stringifyExplanations(_)
stringifyExplanations(o) ==
  IF o = <<>> THEN ""
  ELSE "[" \o Head(o).k \o "=" \o Head(o).v.text \o "," \o Head(o).v.status \o ","
         \o Head(o).v.errorMessage \o "]" \o stringifyExplanations(Tail(o))

\* writeCache taking as baseline only the entities whose explanation did not fail
writeCacheBaselineOfSucceeded(hashes, ents, explanations, more) ==
  LET entityHashes == EntityHashesOf(ents)
      failed == {n \in 1..Len(ents) :
                   \E model \in Models :
                     LET key == createExplanationCacheKey(ents[n].contentHash, model,
                                                          PROMPT_VERSION)
                     IN Has(explanations, key) /\ Get(explanations, key).status = "failed"}
      succeeded == SelectSeq(ents, LAMBDA e : \A n \in failed : ents[n] # e)
      snapshotHash ==
        sha256("{" \o stringifyHashes(hashes) \o ";" \o stringifyHashes(entityHashes)
                 \o ";" \o stringifyExplanations(explanations) \o "}")
  IN [ isNull |-> FALSE,
       has |-> Fields,
       snapshotHash |-> snapshotHash,
       fileHashes |-> hashes,
       entityHashes |-> entityHashes,
       explanations |-> explanations,
       projectSummaries |-> more.projectSummaries,
       domainClusters |-> more.domainClusters,
       lastSuccessfulSnapshot |->
         [entityHashes |-> EntityHashesOf(succeeded),
          entityIds |-> [n \in 1..Len(succeeded) |-> succeeded[n].id]] ]

\* writeCache keeping only the explanations of the entities of this run
writeCachePruned(hashes, ents, explanations, more) ==
  LET entityHashes == EntityHashesOf(ents)
      current == {createExplanationCacheKey(ents[n].contentHash, model, PROMPT_VERSION) :
                    n \in 1..Len(ents), model \in Models}
      kept == SelectSeq(explanations, LAMBDA p : p.k \in current)
      snapshotHash ==
        sha256("{" \o stringifyHashes(hashes) \o ";" \o stringifyHashes(entityHashes)
                 \o ";" \o stringifyExplanations(kept) \o "}")
  IN [ isNull |-> FALSE,
       has |-> Fields,
       snapshotHash |-> snapshotHash,
       fileHashes |-> hashes,
       entityHashes |-> entityHashes,
       explanations |-> kept,
       projectSummaries |-> more.projectSummaries,
       domainClusters |-> more.domainClusters,
       lastSuccessfulSnapshot |->
         [entityHashes |-> entityHashes,
          entityIds |-> [n \in 1..Len(ents) |-> ents[n].id]] ]

writeCache(hashes, ents, explanations, more) ==
  LET entityHashes == EntityHashesOf(ents)
      snapshotHash ==
        sha256("{" \o stringifyHashes(hashes) \o ";" \o stringifyHashes(entityHashes)
                 \o ";" \o stringifyExplanations(explanations) \o "}")
  IN [ isNull |-> FALSE,
       has |-> Fields,
       snapshotHash |-> snapshotHash,
       fileHashes |-> hashes,
       entityHashes |-> entityHashes,
       explanations |-> explanations,
       projectSummaries |-> more.projectSummaries,
       domainClusters |-> more.domainClusters,
       lastSuccessfulSnapshot |->
         [entityHashes |-> entityHashes,
          entityIds |-> [n \in 1..Len(ents) |-> ents[n].id]] ]

----------------------------------------------------------------------------
(* changelog.ts *)

\* buildChangelog with line 21 comparing the digests only
buildChangelogComparingOnly(currentEntityHashes, previous) ==
  IF previous.isNull \/ "lastSuccessfulSnapshot" \notin previous.has
  THEN [ addedEntities |-> Keys(currentEntityHashes),
         removedEntities |-> <<>>,
         changedEntities |-> <<>> ]
  ELSE LET prevHashes == previous.lastSuccessfulSnapshot.entityHashes
           currentIds == Keys(currentEntityHashes)
           prevIds == Keys(prevHashes)
       IN [ addedEntities |-> Filter(currentIds, Range(currentIds) \ Range(prevIds)),
            removedEntities |-> Filter(prevIds, Range(prevIds) \ Range(currentIds)),
            changedEntities |->
              Filter(currentIds,
                     {id \in Range(currentIds) :
                        Get(prevHashes, id) # Get(currentEntityHashes, id)}) ]

buildChangelog(currentEntityHashes, previous) ==
  IF previous.isNull \/ "lastSuccessfulSnapshot" \notin previous.has
  THEN [ addedEntities |-> Keys(currentEntityHashes),
         removedEntities |-> <<>>,
         changedEntities |-> <<>> ]
  ELSE LET prevHashes == previous.lastSuccessfulSnapshot.entityHashes
           currentIds == Keys(currentEntityHashes)
           prevIds == Keys(prevHashes)
       IN [ addedEntities |-> Filter(currentIds, Range(currentIds) \ Range(prevIds)),
            removedEntities |-> Filter(prevIds, Range(prevIds) \ Range(currentIds)),
            changedEntities |->
              Filter(currentIds,
                     {id \in Range(currentIds) :
                        /\ Has(prevHashes, id)
                        /\ Get(prevHashes, id) # ""
                        /\ Get(prevHashes, id) # Get(currentEntityHashes, id)}) ]

----------------------------------------------------------------------------
(* render/json.ts *)

CountStatus(expl, status) == Cardinality({n \in 1..Len(expl) : expl[n].status = status})

writeJsonReport(ents, expl, changelog, errs) ==
  [ written |-> TRUE,
    llmFailedCount |-> CountStatus(expl, "failed"),
    llmCachedCount |-> CountStatus(expl, "cached"),
    entityCount |-> Len(ents),
    changelog |-> changelog,
    errors |-> errs ]

NoReport ==
  [ written |-> FALSE, llmFailedCount |-> 0, llmCachedCount |-> 0, entityCount |-> 0,
    changelog |-> [addedEntities |-> <<>>, removedEntities |-> <<>>,
                   changedEntities |-> <<>>],
    errors |-> <<>> ]

----------------------------------------------------------------------------
(* llm.ts of part_003's main: the provider's answers to the two project-wide *)
(* prompts, and clusterDomains' parsing of the second.                       *)

SummaryTexts == {"s1"}

DomainTexts == {"[{Core}]", "not json"}

ParsesAsArray(text) == text = "[{Core}]"

ParsedDomains(text) == <<"core">>

RECURSIVE stringifyPaths(_)
stringifyPaths(paths) ==
  IF paths = <<>> THEN ""
  ELSE Head(paths) \o (IF Len(paths) > 1 THEN "," ELSE "") \o stringifyPaths(Tail(paths))

JSONstringify(paths) == "[" \o stringifyPaths(paths) \o "]"

----------------------------------------------------------------------------
(* The state before the first run *)

NoCall == [kind |-> "none", attempt |-> 0, outer |-> 0, lastError |-> Undefined]

NoExtras ==
  [ summaryHashKey |-> "", projectSummary |-> "", domainHashKey |-> "",
    domains |-> <<>> ]

NoTree == Tree(Absent, Absent)

NoRun == [tree |-> NoTree, called |-> {}, decided |-> <<>>, intact |-> FALSE, accesses |-> <<>>]

NoHist ==
  [tree1 |-> NoTree, tree2 |-> NoTree, result1 |-> EmptyObject,
   model1 |-> "", intact |-> FALSE]

NoProbe == [given |-> <<>>, returned |-> <<>>]

\* no process has run yet
Quiet(m) ==
  /\ main = m
  /\ cacheFile = [state |-> "missing", json |-> NullCache]
  /\ pc = "idle"
  /\ args = [force |-> FALSE, model |-> "gpt-4o-mini"]
  /\ fileHashes = EmptyObject
  /\ entities = <<>>
  /\ explanation = <<>>
  /\ previousCache = NullCache
  /\ explanationCache = EmptyObject
  /\ errors = <<>>
  /\ i = 1
  /\ call = NoCall
  /\ extras = NoExtras
  /\ report = NoReport
  /\ exit = "none"
  /\ run = NoRun
  /\ hist = NoHist

InitOf(m) == Quiet(m) /\ probe = NoProbe

Init == InitOf("cli.ts")

InitDomains == InitOf("part_003")

Stopped == pc \in {"idle", "done", "fatal"}

----------------------------------------------------------------------------
(* What happens to the cache file between runs, outside the program: the    *)
(* file a run wrote is deleted, made unreadable or unparsable, or loses one *)
(* of its fields.  The process has exited and nothing of it remains; the    *)
(* bookkeeping on consecutive runs starts afresh.                            *)

Exited ==
  /\ pc' = "idle"
  /\ args' = [force |-> FALSE, model |-> "gpt-4o-mini"]
  /\ fileHashes' = EmptyObject
  /\ entities' = <<>>
  /\ explanation' = <<>>
  /\ previousCache' = NullCache
  /\ explanationCache' = EmptyObject
  /\ errors' = <<>>
  /\ i' = 1
  /\ call' = NoCall
  /\ extras' = NoExtras
  /\ report' = NoReport
  /\ exit' = "none"
  /\ run' = NoRun
  /\ hist' = NoHist
  /\ UNCHANGED <<main, probe>>

Junk(state, json) ==
  /\ pc = "done"
  /\ hist.intact
  /\ cacheFile' = [state |-> state, json |-> json]
  /\ Exited

DeleteCacheFile == Junk("missing", NullCache)

MakeCacheUnreadable == Junk("unreadable", NullCache)

WriteInvalidJson == Junk("invalid", NullCache)

Cleared(json, f) ==
  IF f = "lastSuccessfulSnapshot" THEN [json EXCEPT !.has = @ \ {f}, ![f] = NoLast]
  ELSE [json EXCEPT !.has = @ \ {f}, ![f] = EmptyObject]

DropField(f) ==
  /\ pc = "done"
  /\ hist.intact
  /\ cacheFile' = [cacheFile EXCEPT !.json = Cleared(cacheFile.json, f)]
  /\ Exited

----------------------------------------------------------------------------
(* main(): from the start of the process to the first provider call *)

\* cli.ts 115-116
fileHashesOf(files) ==
  FromEntries([n \in 1..Len(files) |-> [k |-> files[n].path, v |-> files[n].sha256]])

\* cli.ts 118-135
entitiesOf(tree) ==
  LET parsed == parseFiles(discoverFiles(tree))
  IN Flat([n \in 1..Len(parsed) |-> parsed[n].entities])

\* cli.ts 140 with an empty object on the right of the spread
noExplanations(previous) == EmptyObject

\* cli.ts 140: { ...(previousCache?.explanations ?? {}) }
previousExplanations(previous) ==
  IF previous.isNull \/ "explanations" \notin previous.has
  THEN EmptyObject
  ELSE previous.explanations

StartRun(tree, force, model) ==
  /\ Stopped
  /\ LET ents == entitiesOf(tree)
         previous == readCache(cacheFile)
     IN /\ fileHashes' = fileHashesOf(discoverFiles(tree))
        /\ entities' = ents
        /\ explanation' =
             [n \in 1..Len(ents) |-> [text |-> "", status |-> "ok", errorMessage |-> Undefined]]
        /\ previousCache' = previous
        /\ explanationCache' = previousExplanations(previous)
  /\ args' = [force |-> force, model |-> model]
  /\ errors' = <<>>
  /\ i' = 1
  /\ pc' = "loop"
  /\ call' = NoCall
  /\ extras' = NoExtras
  /\ report' = NoReport
  /\ exit' = "running"
  /\ run' = [tree |-> tree, called |-> {}, decided |-> <<>>, intact |-> hist.intact,
             accesses |-> <<"read">>]
  /\ UNCHANGED <<main, probe, cacheFile, hist>>

\* cli.ts 115, 118: readdirSync, readFileSync or the parser throws; main()
\* rejects before readCache
DiscoveryFails ==
  /\ Stopped
  /\ pc' = "fatal"
  /\ exit' = "EACCES"
  /\ args' = [force |-> FALSE, model |-> "gpt-4o-mini"]
  /\ fileHashes' = EmptyObject
  /\ entities' = <<>>
  /\ explanation' = <<>>
  /\ previousCache' = NullCache
  /\ explanationCache' = EmptyObject
  /\ errors' = <<>>
  /\ i' = 1
  /\ call' = NoCall
  /\ extras' = NoExtras
  /\ report' = NoReport
  /\ run' = [NoRun EXCEPT !.intact = hist.intact]
  /\ UNCHANGED <<main, probe, cacheFile, hist>>

InLoop == pc = "loop" /\ i <= Len(entities)

Decision == shouldExplainEntity(entities[i], fileHashes, previousCache, args.force)

Key == createExplanationCacheKey(entities[i].contentHash, args.model, PROMPT_VERSION)

Fatal(why) ==
  /\ pc' = "fatal"
  /\ exit' = why
  /\ call' = NoCall

\* shouldExplainEntity reads a property of undefined: main() rejects
DecideThrows ==
  /\ InLoop
  /\ Decision.threw
  /\ Fatal("TypeError")
  /\ UNCHANGED <<main, probe, cacheFile, args, fileHashes, entities, explanation, previousCache,
                 explanationCache, errors, i, extras, report, run, hist>>

\* ServeCached giving the entity the status the cache entry records
ServeCachedAsRecorded ==
  /\ InLoop
  /\ ~Decision.threw
  /\ ~Decision.value /\ Has(explanationCache, Key)
  /\ explanation' =
       [explanation EXCEPT ![i] =
          [text |-> Get(explanationCache, Key).text,
           status |-> Get(explanationCache, Key).status,
           errorMessage |-> Get(explanationCache, Key).errorMessage]]
  /\ i' = i + 1
  /\ run' = [run EXCEPT !.decided = Append(@, Decision.value)]
  /\ UNCHANGED <<main, probe, cacheFile, pc, args, fileHashes, entities, previousCache,
                 explanationCache, errors, call, extras, report, exit, hist>>

\* cli.ts 149-156
ServeCached ==
  /\ InLoop
  /\ ~Decision.threw
  /\ ~Decision.value /\ Has(explanationCache, Key)
  /\ explanation' =
       [explanation EXCEPT ![i] =
          [text |-> Get(explanationCache, Key).text, status |-> "cached",
           errorMessage |-> Get(explanationCache, Key).errorMessage]]
  /\ i' = i + 1
  /\ run' = [run EXCEPT !.decided = Append(@, Decision.value)]
  /\ UNCHANGED <<main, probe, cacheFile, pc, args, fileHashes, entities, previousCache,
                 explanationCache, errors, call, extras, report, exit, hist>>

\* CallExplainEntity without the await: the loop goes on to the next entity
CallExplainEntityUnawaited ==
  /\ InLoop
  /\ ~Decision.threw
  /\ ~(~Decision.value /\ Has(explanationCache, Key))
  /\ i' = i + 1
  /\ call' = [kind |-> "explainEntity", attempt |-> 1, outer |-> 0, lastError |-> Undefined]
  /\ run' = [run EXCEPT !.decided = Append(@, Decision.value), !.called = @ \cup {i}]
  /\ UNCHANGED <<main, probe, cacheFile, pc, args, fileHashes, entities, explanation,
                 previousCache, explanationCache, errors, extras, report, exit, hist>>

\* cli.ts 158-159: llm.explainEntity is called and main() awaits it
CallExplainEntity ==
  /\ InLoop
  /\ ~Decision.threw
  /\ ~(~Decision.value /\ Has(explanationCache, Key))
  /\ pc' = "await"
  /\ call' = [kind |-> "explainEntity", attempt |-> 1, outer |-> 0, lastError |-> Undefined]
  /\ run' = [run EXCEPT !.decided = Append(@, Decision.value), !.called = @ \cup {i}]
  /\ UNCHANGED <<main, probe, cacheFile, args, fileHashes, entities, explanation, previousCache,
                 explanationCache, errors, i, extras, report, exit, hist>>

----------------------------------------------------------------------------
(* llm.ts: one request of the retry loop *)

\* a request fails (the API throws, or the text is empty) before the last attempt
RequestFailsRetry(error) ==
  /\ pc = "await"
  /\ call.attempt < maxAttempts
  /\ call' = [call EXCEPT !.attempt = @ + 1, !.lastError = error]
  /\ UNCHANGED <<main, probe, cacheFile, pc, args, fileHashes, entities, explanation,
                 previousCache, explanationCache, errors, i, extras, report, exit, run,
                 hist>>

\* cli.ts 167-168
ExplainEntityReturns(text) ==
  /\ pc = "await"
  /\ call.kind = "explainEntity"
  /\ explanation' =
       [explanation EXCEPT ![i] = [text |-> text, status |-> "ok", errorMessage |-> Undefined]]
  /\ explanationCache' =
       Put(explanationCache, Key, [text |-> text, status |-> "ok", errorMessage |-> Undefined])
  /\ i' = i + 1
  /\ pc' = "loop"
  /\ call' = NoCall
  /\ UNCHANGED <<main, probe, cacheFile, args, fileHashes, entities, previousCache, errors,
                 extras, report, exit, run, hist>>

\* cli.ts 169-187: the third attempt fails, explainEntity throws the last error
ExplainEntityThrows(error) ==
  /\ pc = "await"
  /\ call.kind = "explainEntity"
  /\ call.attempt = maxAttempts
  /\ explanation' =
       [explanation EXCEPT ![i] = [text |-> FailedText, status |-> "failed", errorMessage |-> error]]
  /\ explanationCache' =
       Put(explanationCache, Key, [text |-> FailedText, status |-> "failed", errorMessage |-> error])
  /\ errors' =
       Append(errors, [scope |-> "llm", message |-> error, entityId |-> entities[i].id,
                       filePath |-> entities[i].filePath])
  /\ i' = i + 1
  /\ pc' = "loop"
  /\ call' = NoCall
  /\ UNCHANGED <<main, probe, cacheFile, args, fileHashes, entities, previousCache, extras,
                 report, exit, run, hist>>

----------------------------------------------------------------------------
(* part_003's main(): the project summary and the domain clustering *)

AfterLoop == pc = "loop" /\ i > Len(entities)

summaryHashKeyOf(paths, model) ==
  createExplanationCacheKey(JSONstringify(paths), model, PROMPT_VERSION \o "-summary")

domainHashKeyOf(paths, model) ==
  createExplanationCacheKey(JSONstringify(paths), model, PROMPT_VERSION \o "-domains")

CachedSummary ==
  LET key == summaryHashKeyOf(Keys(fileHashes), args.model)
  IN IF ~previousCache.isNull /\ Has(previousCache.projectSummaries, key)
     THEN Get(previousCache.projectSummaries, key)
     ELSE ""

CachedDomains ==
  LET key == domainHashKeyOf(Keys(fileHashes), args.model)
  IN IF ~previousCache.isNull /\ Has(previousCache.domainClusters, key)
     THEN Get(previousCache.domainClusters, key)
     ELSE <<>>

\* part_003 261-269
ProjectSummary ==
  /\ main = "part_003"
  /\ AfterLoop
  /\ extras' = [extras EXCEPT !.summaryHashKey = summaryHashKeyOf(Keys(fileHashes), args.model),
                              !.projectSummary = CachedSummary]
  /\ IF CachedSummary = "" \/ args.force
     THEN /\ pc' = "await"
          /\ call' = [kind |-> "generateProjectSummary", attempt |-> 1, outer |-> 0,
                      lastError |-> Undefined]
     ELSE /\ pc' = "domains"
          /\ call' = NoCall
  /\ UNCHANGED <<main, probe, cacheFile, args, fileHashes, entities, explanation, previousCache,
                 explanationCache, errors, i, report, exit, run, hist>>

GenerateProjectSummaryReturns(text) ==
  /\ pc = "await"
  /\ call.kind = "generateProjectSummary"
  /\ extras' = [extras EXCEPT !.projectSummary = text]
  /\ pc' = "domains"
  /\ call' = NoCall
  /\ UNCHANGED <<main, probe, cacheFile, args, fileHashes, entities, explanation, previousCache,
                 explanationCache, errors, i, report, exit, run, hist>>

\* part_003 268: no try around the call, main() rejects
GenerateProjectSummaryThrows(error) ==
  /\ pc = "await"
  /\ call.kind = "generateProjectSummary"
  /\ call.attempt = maxAttempts
  /\ Fatal(error)
  /\ UNCHANGED <<main, probe, cacheFile, args, fileHashes, entities, explanation, previousCache,
                 explanationCache, errors, i, extras, report, run, hist>>

\* part_003 271-279
DomainClusters ==
  /\ pc = "domains"
  /\ extras' = [extras EXCEPT !.domainHashKey = domainHashKeyOf(Keys(fileHashes), args.model),
                              !.domains = CachedDomains]
  /\ IF CachedDomains = <<>> \/ args.force
     THEN /\ pc' = "await"
          /\ call' = [kind |-> "clusterDomains", attempt |-> 1, outer |-> 1,
                      lastError |-> Undefined]
     ELSE /\ pc' = "reports"
          /\ call' = NoCall
  /\ UNCHANGED <<main, probe, cacheFile, args, fileHashes, entities, explanation, previousCache,
                 explanationCache, errors, i, report, exit, run, hist>>

ClusterDomainsReturns(text) ==
  /\ pc = "await"
  /\ call.kind = "clusterDomains"
  /\ ParsesAsArray(text)
  /\ extras' = [extras EXCEPT !.domains = ParsedDomains(text)]
  /\ pc' = "reports"
  /\ call' = NoCall
  /\ UNCHANGED <<main, probe, cacheFile, args, fileHashes, entities, explanation, previousCache,
                 explanationCache, errors, i, report, exit, run, hist>>

\* llm.ts 117-126: what the catch of clusterDomains' loop catches: JSON.parse's
\* error on the answer, or the error completeWithRetry threw after its last attempt
Caught(outcome) ==
  IF outcome \in RequestErrors
  THEN (IF call.attempt = maxAttempts THEN {outcome} ELSE {})
  ELSE (IF ParsesAsArray(outcome) THEN {} ELSE {"SyntaxError"})

ClusterDomainsRetries(outcome) ==
  /\ pc = "await"
  /\ call.kind = "clusterDomains"
  /\ call.outer < maxAttempts
  /\ \E caught \in Caught(outcome) :
       call' = [call EXCEPT !.attempt = 1, !.outer = @ + 1, !.lastError = caught]
  /\ UNCHANGED <<main, probe, cacheFile, pc, args, fileHashes, entities, explanation,
                 previousCache, explanationCache, errors, i, extras, report, exit, run,
                 hist>>

\* llm.ts 129 and part_003 278: no try around the call, main() rejects
ClusterDomainsThrows(outcome) ==
  /\ pc = "await"
  /\ call.kind = "clusterDomains"
  /\ call.outer = maxAttempts
  /\ \E caught \in Caught(outcome) : Fatal(caught)
  /\ UNCHANGED <<main, probe, cacheFile, args, fileHashes, entities, explanation, previousCache,
                 explanationCache, errors, i, extras, report, run, hist>>

----------------------------------------------------------------------------
(* main(): the changelog, the reports and the cache write *)

AtReports == (main = "cli.ts" /\ AfterLoop) \/ pc = "reports"

Merged(o, k, v) == IF k = "" THEN o ELSE Put(o, k, v)

ExtrasToWrite ==
  IF main = "cli.ts"
  THEN [projectSummaries |-> EmptyObject, domainClusters |-> EmptyObject]
  ELSE [projectSummaries |->
          Merged(previousCache.projectSummaries, extras.summaryHashKey, extras.projectSummary),
        domainClusters |->
          Merged(previousCache.domainClusters, extras.domainHashKey, extras.domains)]

ResultsById ==
  FromEntries([n \in 1..Len(entities) |-> [k |-> entities[n].id, v |-> explanation[n]]])

\* cli.ts 190-227
Reports ==
  /\ AtReports
  /\ LET entityHashes == EntityHashesOf(entities)
         changelog == buildChangelog(entityHashes, previousCache)
     IN report' = writeJsonReport(entities, explanation, changelog, errors)
  /\ cacheFile' =
       [state |-> "json",
        json |-> writeCache(fileHashes, entities, explanationCache, ExtrasToWrite)]
  /\ pc' = "done"
  /\ exit' = "done"
  /\ hist' = IF main = "cli.ts"
             THEN [tree1 |-> run.tree, tree2 |-> hist.tree1, result1 |-> ResultsById,
                   model1 |-> args.model, intact |-> TRUE]
             ELSE [NoHist EXCEPT !.intact = TRUE]
  /\ run' = [run EXCEPT !.accesses = Append(@, "write")]
  /\ UNCHANGED <<main, probe, args, fileHashes, entities, explanation, previousCache,
                 explanationCache, errors, i, call, extras>>

\* the reports fail after the cache file has been written
ReportsFailAfterWriting ==
  /\ AtReports
  /\ Fatal("EIO")
  /\ cacheFile' =
       [state |-> "json",
        json |-> writeCache(fileHashes, entities, explanationCache, ExtrasToWrite)]
  /\ UNCHANGED <<main, probe, args, fileHashes, entities, explanation, previousCache,
                 explanationCache, errors, i, extras, report, run, hist>>

\* writeJsonReport or writeHtmlReport throws: main() rejects before writeCache
ReportsFail ==
  /\ AtReports
  /\ Fatal("EIO")
  /\ UNCHANGED <<main, probe, cacheFile, args, fileHashes, entities, explanation, previousCache,
                 explanationCache, errors, i, extras, report, run, hist>>

----------------------------------------------------------------------------

Environment ==
  \/ DeleteCacheFile
  \/ MakeCacheUnreadable
  \/ WriteInvalidJson
  \/ \E f \in {"fileHashes", "entityHashes", "explanations", "lastSuccessfulSnapshot"} :
       DropField(f)

Start ==
  \/ \E tree \in Trees, force \in BOOLEAN, model \in Models : StartRun(tree, force, model)
  \/ DiscoveryFails

Loop ==
  \/ DecideThrows
  \/ ServeCached
  \/ CallExplainEntity
  \/ \E error \in RequestErrors : RequestFailsRetry(error)
  \/ \E text \in Texts : ExplainEntityReturns(text)
  \/ \E error \in RequestErrors : ExplainEntityThrows(error)

Summaries ==
  \/ ProjectSummary
  \/ \E text \in SummaryTexts : GenerateProjectSummaryReturns(text)
  \/ \E error \in RequestErrors : GenerateProjectSummaryThrows(error)
  \/ DomainClusters
  \/ \E text \in DomainTexts : ClusterDomainsReturns(text)
  \/ \E outcome \in DomainTexts \cup RequestErrors : ClusterDomainsRetries(outcome)
  \/ \E outcome \in DomainTexts \cup RequestErrors : ClusterDomainsThrows(outcome)

\* the pipeline of cli.ts
Next == Start \/ Loop \/ Reports \/ ReportsFail \/ Environment

Spec == Init /\ [][Next]_vars

\* the pipeline of part_003
NextDomains == Start \/ Loop \/ Summaries \/ Reports \/ ReportsFail \/ Environment

SpecDomains == InitDomains /\ [][NextDomains]_vars

----------------------------------------------------------------------------
(* shouldExplainEntity on its own: one entity, the file hashes of the run,  *)
(* and a previous snapshot that is null or a CacheSnapshot, as its          *)
(* signature has them.                                                       *)

EntityIds == <<"id1", "id2">>

Hashes == {"h1", "h2"}

RECURSIVE ObjectsOver(_, _)
ObjectsOver(ks, vs) ==
  IF ks = <<>> THEN {EmptyObject}
  ELSE LET rest == ObjectsOver(Tail(ks), vs)
       IN rest \cup {<<[k |-> Head(ks), v |-> v]>> \o o : v \in vs, o \in rest}

Snapshot(fh, eh) ==
  [NullCache EXCEPT !.isNull = FALSE, !.has = Fields, !.fileHashes = fh, !.entityHashes = eh]

DecideEntities ==
  {[id |-> id, filePath |-> p, contentHash |-> h] : id \in Range(EntityIds), p \in FilePaths,
                                                     h \in Hashes}

DecideSnapshots ==
  {NullCache} \cup {Snapshot(fh, eh) : fh \in ObjectsOver(SortedPaths, Hashes),
                                       eh \in ObjectsOver(EntityIds, Hashes)}

InitDecide ==
  /\ main = "cli.ts"
  /\ cacheFile = [state |-> "missing", json |-> NullCache]
  /\ pc = "decide"
  /\ args \in [force : BOOLEAN, model : Models]
  /\ fileHashes \in ObjectsOver(SortedPaths, Hashes)
  /\ entities \in {<<e>> : e \in DecideEntities}
  /\ explanation = <<>>
  /\ previousCache \in DecideSnapshots
  /\ explanationCache = EmptyObject
  /\ errors = <<>>
  /\ i = 1
  /\ call = NoCall
  /\ extras = NoExtras
  /\ report = NoReport
  /\ exit = "none"
  /\ run = NoRun
  /\ hist = NoHist
  /\ probe = NoProbe

\* cli.ts 146
Decide ==
  /\ pc = "decide"
  /\ pc' = "decided"
  /\ exit' = IF Decision.threw THEN "TypeError" ELSE "returned"
  /\ run' = [run EXCEPT !.decided = <<Decision.value>>]
  /\ UNCHANGED <<main, probe, cacheFile, args, fileHashes, entities, explanation, previousCache,
                 explanationCache, errors, i, call, extras, report, hist>>

NextDecide == Decide

SpecDecide == InitDecide /\ [][NextDecide]_vars

----------------------------------------------------------------------------
(* The other functions on their own.  probe.given is what the function is   *)
(* called with, probe.returned what it returns.                              *)

Given(inputs) ==
  /\ Quiet("cli.ts")
  /\ probe \in {[given |-> in, returned |-> <<>>] : in \in inputs}

NotReturned == probe.given # <<>> /\ probe.returned = <<>>

Returns(value) ==
  /\ NotReturned
  /\ probe' = [probe EXCEPT !.returned = <<value>>]
  /\ UNCHANGED <<main, cacheFile, pc, args, fileHashes, entities, explanation,
                 previousCache, explanationCache, errors, i, call, extras, report, exit,
                 run, hist>>

HasReturned == probe.returned # <<>>

(* buildChangelog: the entity hashes of the run against a previous cache that *)
(* is null, a snapshot without lastSuccessfulSnapshot, or a snapshot with one *)

ChangelogIds == <<"id1", "id2", "id3">>

Baseline(eh) ==
  [Snapshot(EmptyObject, eh) EXCEPT
     !.lastSuccessfulSnapshot = [entityHashes |-> eh, entityIds |-> Keys(eh)]]

ChangelogInputs ==
  {[current |-> cur, previous |-> prev] :
     cur \in ObjectsOver(ChangelogIds, Hashes),
     prev \in {NullCache, Cleared(Snapshot(EmptyObject, EmptyObject), "lastSuccessfulSnapshot")}
                \cup {Baseline(eh) : eh \in ObjectsOver(ChangelogIds, Hashes)}}

InitChangelog == Given(ChangelogInputs)

BuildChangelog == Returns(buildChangelog(probe.given.current, probe.given.previous))

NextChangelog == BuildChangelog

SpecChangelog == InitChangelog /\ [][NextChangelog]_vars

(* buildEntity: two calls, each with a path, a node and a name.  A file name *)
(* may hold any character but the separator, and the text of an arrow        *)
(* function may be a chain of conditionals.                                  *)

IdentityPaths == {"a.ts", "a.ts:f:function:1:1:() => a?b?c?d?e?x"}

IdentityNames == {"f", "G"}

IdentityTexts == {"() => 1", "() => a?b?c?d?e?x:G:component:1:1:() => 1"}

IdentityNodes ==
  {[type |-> t, startLine |-> s, endLine |-> e, text |-> x] :
     t \in {"ArrowFunction", "ClassDeclaration"}, s \in {1, 11}, e \in {1, 11},
     x \in IdentityTexts}

IdentityCalls ==
  {[filePath |-> p, node |-> n, name |-> m] :
     p \in IdentityPaths, n \in IdentityNodes, m \in IdentityNames}

InitIdentity == Given({[a |-> a, b |-> b] : a \in IdentityCalls, b \in IdentityCalls})

BuildEntities ==
  Returns([a |-> buildEntity(probe.given.a.filePath, probe.given.a.node,
                             probe.given.a.name, FALSE),
           b |-> buildEntity(probe.given.b.filePath, probe.given.b.node,
                             probe.given.b.name, FALSE)])

NextIdentity == BuildEntities

SpecIdentity == InitIdentity /\ [][NextIdentity]_vars

(* Two runs of the pipeline, one entity each: the first run writes the cache *)
(* and the second builds its changelog against it.                           *)

NoMore == [projectSummaries |-> EmptyObject, domainClusters |-> EmptyObject]

TwoRuns ==
  LET before == buildEntity(probe.given.a.filePath, probe.given.a.node,
                            probe.given.a.name, FALSE)
      now == buildEntity(probe.given.b.filePath, probe.given.b.node,
                         probe.given.b.name, FALSE)
      previous == readCache([state |-> "json",
                             json |-> writeCache(EmptyObject, <<before>>, EmptyObject, NoMore)])
  IN Returns([before |-> before, now |-> now,
              changelog |-> buildChangelog(EntityHashesOf(<<now>>), previous)])

NextTwoRuns == TwoRuns

SpecTwoRuns == InitIdentity /\ [][NextTwoRuns]_vars

(* createExplanationCacheKey: two calls, each with a digest, a model and a  *)
(* prompt version; the model comes from the configuration file.             *)

KeyDigests == {sha256("() => 1"), sha256("() => 2")}

KeyModels == {"gpt-4o-mini", "gpt-4o-mini:v1", "llama3"}

KeyPromptVersions == {"v1", "v1:v1", "v2"}

KeyCalls ==
  {[entityHash |-> h, model |-> m, promptVersion |-> v] :
     h \in KeyDigests, m \in KeyModels, v \in KeyPromptVersions}

InitKey == Given({[a |-> a, b |-> b] : a \in KeyCalls, b \in KeyCalls})

CreateKeys ==
  Returns([a |-> createExplanationCacheKey(probe.given.a.entityHash, probe.given.a.model,
                                           probe.given.a.promptVersion),
           b |-> createExplanationCacheKey(probe.given.b.entityHash, probe.given.b.model,
                                           probe.given.b.promptVersion)])

NextKey == CreateKeys

SpecKey == InitKey /\ [][NextKey]_vars

----------------------------------------------------------------------------
(* discovery.ts.  A pattern and a relative path are sequences of characters, *)
(* a compiled RegExp is the sequence of the pieces globToRegex appends.      *)

RegexSpecials == {"|", "\\", "{", "}", "(", ")", "[", "]", "^", "$", "+", "?", "."}

LineTerminators == {"\n", "\r"}

escapeRegex(ch) == IF ch \in RegexSpecials THEN "\\" \o ch ELSE ch

RECURSIVE split(_, _)
split(text, separator) ==
  IF \A n \in 1..Len(text) : text[n] # separator THEN <<text>>
  ELSE LET at == CHOOSE n \in 1..Len(text) :
                   /\ text[n] = separator
                   /\ \A m \in 1..(n - 1) : text[m] # separator
       IN <<SubSeq(text, 1, at - 1)>> \o split(SubSeq(text, at + 1, Len(text)), separator)

\* the end of the match of /\{([^}]+)\}/ that starts at n, or 0
BraceMatchEnd(pattern, n) ==
  IF /\ pattern[n] = "{"
     /\ \E m \in (n + 1)..Len(pattern) : pattern[m] = "}"
  THEN LET close == CHOOSE m \in (n + 1)..Len(pattern) :
                      /\ pattern[m] = "}"
                      /\ \A k \in (n + 1)..(m - 1) : pattern[k] # "}"
       IN IF close >= n + 2 THEN close ELSE 0
  ELSE 0

expandBraces(pattern) ==
  LET starts == {n \in 1..Len(pattern) : BraceMatchEnd(pattern, n) # 0}
  IN IF starts = {} THEN <<pattern>>
     ELSE LET index == CHOOSE n \in starts : \A m \in starts : n <= m
              close == BraceMatchEnd(pattern, index)
              prefix == SubSeq(pattern, 1, index - 1)
              suffix == SubSeq(pattern, close + 1, Len(pattern))
              entries == split(SubSeq(pattern, index + 1, close - 1), ",")
          IN [n \in 1..Len(entries) |-> prefix \o entries[n] \o suffix]

RECURSIVE globBody(_)
globBody(normalized) ==
  IF normalized = <<>> THEN <<>>
  ELSE IF normalized[1] = "*"
  THEN IF Len(normalized) >= 2 /\ normalized[2] = "*"
       THEN IF Len(normalized) >= 3 /\ normalized[3] = "/"
            THEN <<"(?:.*/)?">> \o globBody(SubSeq(normalized, 4, Len(normalized)))
            ELSE <<".*">> \o globBody(SubSeq(normalized, 3, Len(normalized)))
       ELSE <<"[^/]*">> \o globBody(Tail(normalized))
  ELSE <<escapeRegex(normalized[1])>> \o globBody(Tail(normalized))

globToRegex(pattern) == <<"^">> \o globBody(pattern) \o <<"$">>

\* what "." matches, and what a character piece matches
Dot(text) == \A n \in 1..Len(text) : text[n] \notin LineTerminators

NoSlash(text) == \A n \in 1..Len(text) : text[n] # "/"

RECURSIVE MatchHere(_, _)
MatchHere(pieces, text) ==
  LET piece == Head(pieces)
      rest == Tail(pieces)
      From(n) == SubSeq(text, n + 1, Len(text))
      To(n) == SubSeq(text, 1, n)
  IN IF pieces = <<>> THEN TRUE
     ELSE IF piece = "$" THEN text = <<>> /\ MatchHere(rest, text)
     ELSE IF piece = "(?:.*/)?"
     THEN \/ \E n \in 1..Len(text) :
               text[n] = "/" /\ Dot(To(n - 1)) /\ MatchHere(rest, From(n))
          \/ MatchHere(rest, text)
     ELSE IF piece = ".*"
     THEN \E n \in 0..Len(text) : Dot(To(n)) /\ MatchHere(rest, From(n))
     ELSE IF piece = "[^/]*"
     THEN \E n \in 0..Len(text) : NoSlash(To(n)) /\ MatchHere(rest, From(n))
     ELSE /\ text # <<>>
          /\ \/ piece = "\\" \o text[1]
             \/ piece = text[1] /\ text[1] \notin RegexSpecials
             \/ piece = "." /\ text[1] \notin LineTerminators
          /\ MatchHere(rest, Tail(text))

\* RegExp.prototype.test of a pattern that starts with ^
test(regex, text) == regex # <<>> /\ regex[1] = "^" /\ MatchHere(Tail(regex), text)

compilePatterns(patterns) ==
  Flat([n \in 1..Len(patterns) |->
          LET expanded == expandBraces(patterns[n])
          IN [m \in 1..Len(expanded) |-> globToRegex(expanded[m])]])

some(regexes, rel) == \E n \in 1..Len(regexes) : test(regexes[n], rel)

\* the two filters with the include test only
selectFilesIncluded(rels, include, exclude) ==
  LET includeRegexes == compilePatterns(include)
      Included(rel) == some(includeRegexes, rel)
  IN Filter(rels, {rel \in Range(rels) : Included(rel)})

selectFiles(rels, include, exclude) ==
  LET includeRegexes == compilePatterns(include)
      excludeRegexes == compilePatterns(exclude)
      Included(rel) == some(includeRegexes, rel)
      NotExcluded(rel) == ~some(excludeRegexes, rel)
  IN Filter(Filter(rels, {rel \in Range(rels) : Included(rel)}),
            {rel \in Range(rels) : NotExcluded(rel)})

(* discoverFiles on one listing of the repository, for every include and     *)
(* exclude list of up to two patterns.                                       *)

TsPattern == <<"*", "*", "/", "*", ".", "t", "s">>

TestPattern == <<"*", "*", "/", "*", ".", "t", "e", "s", "t", ".", "t", "s">>

SrcPattern == <<"s", "r", "c", "/", "*", "*">>

BracePattern == <<"*", ".", "{", "m", "d", ",", "t", "s", "}">>

DiscoveryPatterns == {TsPattern, TestPattern, SrcPattern, BracePattern}

Listing ==
  << <<"s", "r", "c", "/", "a", ".", "t", "s">>,
     <<"s", "r", "c", "/", "a", ".", "t", "e", "s", "t", ".", "t", "s">>,
     <<"s", "r", "c", "/", "b", "/", "c", ".", "t", "s">>,
     <<"R", "E", "A", "D", "M", "E", ".", "m", "d">> >>

PatternLists ==
  {<<>>} \cup {<<p>> : p \in DiscoveryPatterns}
         \cup {<<p, q>> : p \in DiscoveryPatterns, q \in DiscoveryPatterns}

Reorderings(list) ==
  {[n \in 1..Len(list) |-> list[at[n]]] :
     at \in {f \in [1..Len(list) -> 1..Len(list)] : \A n \in 1..Len(list) : \E m \in 1..Len(list) : f[m] = n}}

InitDiscovery ==
  Given({[include |-> in, exclude |-> ex] : in \in PatternLists, ex \in PatternLists})

DiscoverFiles ==
  Returns([selected |-> selectFiles(Listing, probe.given.include, probe.given.exclude),
           reordered |-> {selectFiles(Listing, in, ex) :
                            in \in Reorderings(probe.given.include),
                            ex \in Reorderings(probe.given.exclude)}])

NextDiscovery == DiscoverFiles

SpecDiscovery == InitDiscovery /\ [][NextDiscovery]_vars

(* globToRegex on every pattern of up to MaxPattern characters, tested on    *)
(* every relative path of up to MaxPath characters.                          *)

MaxPattern == 4

MaxPath == 4

GlobChars == {"*", "/", "a", "b"}

PathChars == {"a", "b", "/"}

Strings(alphabet, longest) == UNION {[1..n -> alphabet] : n \in 0..longest}

\* path.relative of a file under the root: segments with a name, no empty one
RelativePaths ==
  {rel \in Strings(PathChars, MaxPath) :
     /\ rel # <<>>
     /\ rel[1] # "/" /\ rel[Len(rel)] # "/"
     /\ \A n \in 1..(Len(rel) - 1) : ~(rel[n] = "/" /\ rel[n + 1] = "/")}

InitGlob ==
  Given({[pattern |-> p, rel |-> r] : p \in Strings(GlobChars, MaxPattern), r \in RelativePaths})

GlobTest == Returns(test(globToRegex(probe.given.pattern), probe.given.rel))

NextGlob == GlobTest

SpecGlob == InitGlob /\ [][NextGlob]_vars

(* compilePatterns on one pattern made of up to three pieces, a piece being  *)
(* a brace group, a name, a separator or a star.                             *)

BracePieces == {<<"{", "a", ",", "b", "}">>, <<"a">>, <<"/">>, <<"*">>}

BracePatterns ==
  BracePieces \cup {p \o q : p \in BracePieces, q \in BracePieces}
              \cup {p \o q \o r : p \in BracePieces, q \in BracePieces, r \in BracePieces}

InitBraces ==
  Given({[pattern |-> p, rel |-> r] : p \in BracePatterns, r \in RelativePaths})

CompileAndTest == Returns(some(compilePatterns(<<probe.given.pattern>>), probe.given.rel))

NextBraces == CompileAndTest

SpecBraces == InitBraces /\ [][NextBraces]_vars

----------------------------------------------------------------------------
(* deps: buildGraph.  The files are the paths of the discovered files, each  *)
(* once; an import may name a module outside the repository; the cap is the  *)
(* integer --max-graph-nodes parses, which nothing validates.                *)

\* Array.prototype.slice(0, end)
slice(array, end) ==
  LET to == IF end < 0 THEN (IF Len(array) + end < 0 THEN 0 ELSE Len(array) + end)
            ELSE (IF end > Len(array) THEN Len(array) ELSE end)
  IN SubSeq(array, 1, to)

\* [...new Set(array)]
RECURSIVE SetOf(_)
SetOf(array) ==
  IF array = <<>> THEN <<>>
  ELSE LET front == SetOf(SubSeq(array, 1, Len(array) - 1))
           last == array[Len(array)]
       IN IF last \in Range(front) THEN front ELSE Append(front, last)

RECURSIVE SelectEdges(_, _)
SelectEdges(edges, kept) ==
  IF edges = <<>> THEN <<>>
  ELSE IF Head(edges).from \in kept /\ Head(edges).to \in kept
  THEN <<Head(edges)>> \o SelectEdges(Tail(edges), kept)
  ELSE SelectEdges(Tail(edges), kept)

buildGraph(files, edges, maxNodes) ==
  IF Len(files) <= maxNodes
  THEN [nodes |-> files, edges |-> edges, truncated |-> FALSE, omittedNodeCount |-> 0]
  ELSE LET kept == SetOf(slice(files, maxNodes))
       IN [nodes |-> kept,
           edges |-> SelectEdges(edges, Range(kept)),
           truncated |-> TRUE,
           omittedNodeCount |-> Len(files) - Len(kept)]

GraphPaths == {"a.ts", "b.ts", "c.ts"}

GraphFiles ==
  {files \in UNION {[1..n -> GraphPaths] : n \in 0..Cardinality(GraphPaths)} :
     \A n \in 1..Len(files) : \A m \in 1..Len(files) : files[n] = files[m] => n = m}

GraphEdges == {[from |-> f, to |-> t] : f \in GraphPaths, t \in GraphPaths \cup {"node:fs"}}

GraphEdgeLists == {<<>>} \cup {<<e>> : e \in GraphEdges} \cup {<<e, f>> : e \in GraphEdges, f \in GraphEdges}

GraphCaps == (0 - 2)..(Cardinality(GraphPaths) + 1)

\* buildDependencyEdges: the edges leave the files, file after file
EdgesOf(files) ==
  {edges \in GraphEdgeLists :
     /\ \A n \in 1..Len(edges) : edges[n].from \in Range(files)
     /\ \A n \in 1..(Len(edges) - 1) :
          \E at \in 1..Len(files) : \E next \in at..Len(files) :
            files[at] = edges[n].from /\ files[next] = edges[n + 1].from}

InitGraph ==
  Given({[files |-> f[1], edges |-> f[2], maxNodes |-> m] :
           f \in UNION {{<<files, edges>> : edges \in EdgesOf(files)} : files \in GraphFiles},
           m \in GraphCaps})

BuildGraph == Returns(buildGraph(probe.given.files, probe.given.edges, probe.given.maxNodes))

NextGraph == BuildGraph

SpecGraph == InitGraph /\ [][NextGraph]_vars

----------------------------------------------------------------------------
(* llm.ts: one explainEntity call, request by request.  probe.at is where    *)
(* the call is suspended: at the await of create, at the await of the timer, *)
(* or nowhere once it has returned or thrown; probe.log is what it has done. *)

\* message.content of a response: text, text in blanks, nothing, blanks
Contents == {"t1", " t1 ", "t2", "", "  "}

\* the methods of the client that go through completeWithRetry
RetryCallers == {"explainEntity", "generateProjectSummary"}

trim(content) ==
  IF content \in {"", "  "} THEN "" ELSE IF content = " t1 " THEN "t1" ELSE content

EmptyResponse == "LLM response was empty"

\* the delay of the timer, without the attempt number
backoffFlat(attempt) == 250

backoff(attempt) == 250 * attempt

Request(attempt) == [event |-> "request", attempt |-> attempt]

Sleep(ms) == [event |-> "sleep", ms |-> ms]

Failure(error) == [event |-> "failure", error |-> error]

Success(text) == [event |-> "success", text |-> text]

InitRetry ==
  /\ Quiet("cli.ts")
  /\ probe \in {[given |-> <<caller>>, returned |-> <<>>, at |-> "call",
                 attempt |-> 0, lastError |-> Undefined, log |-> <<>>] :
                  caller \in RetryCallers}

\* part_001 64-69, 72-83, 27-33: the call runs up to the first await
CompleteWithRetry ==
  /\ probe.at = "call"
  /\ probe' = [probe EXCEPT !.at = "create", !.attempt = 1, !.log = Append(@, Request(1))]
  /\ UNCHANGED <<main, cacheFile, pc, args, fileHashes, entities, explanation, previousCache,
                 explanationCache, errors, i, call, extras, report, exit, run, hist>>

\* part_001 48-60: the catch block, and the throw after the last attempt
Catch(error) ==
  IF probe.attempt < maxAttempts
  THEN [probe EXCEPT !.lastError = error, !.at = "timer",
                     !.log = @ \o <<Failure(error), Sleep(backoff(probe.attempt))>>]
  ELSE [probe EXCEPT !.lastError = error, !.at = "done", !.attempt = @ + 1,
                     !.log = Append(@, Failure(error)),
                     !.returned = <<[thrown |-> error]>>]

\* part_001 42-47: create resolves
CreateResolves(content) ==
  /\ probe.at = "create"
  /\ probe' = IF trim(content) = "" THEN Catch(EmptyResponse)
              ELSE [probe EXCEPT !.at = "done", !.log = Append(@, Success(trim(content))),
                                 !.returned = <<[value |-> trim(content)]>>]
  /\ UNCHANGED <<main, cacheFile, pc, args, fileHashes, entities, explanation, previousCache,
                 explanationCache, errors, i, call, extras, report, exit, run, hist>>

\* part_001 33, 48: create rejects
CreateRejects(error) ==
  /\ probe.at = "create"
  /\ probe' = Catch(error)
  /\ UNCHANGED <<main, cacheFile, pc, args, fileHashes, entities, explanation, previousCache,
                 explanationCache, errors, i, call, extras, report, exit, run, hist>>

\* part_001 55, 31-33: the timer fires and the next attempt sends its request
TimerFires ==
  /\ probe.at = "timer"
  /\ probe' = [probe EXCEPT !.at = "create", !.attempt = @ + 1,
                            !.log = Append(@, Request(probe.attempt + 1))]
  /\ UNCHANGED <<main, cacheFile, pc, args, fileHashes, entities, explanation, previousCache,
                 explanationCache, errors, i, call, extras, report, exit, run, hist>>

NextRetry ==
  \/ CompleteWithRetry
  \/ \E content \in Contents : CreateResolves(content)
  \/ \E error \in RequestErrors \cup {"rate limit"} : CreateRejects(error)
  \/ TimerFires

\* every request terminates and every timer fires
SpecRetry == InitRetry /\ [][NextRetry]_vars /\ WF_vars(NextRetry)

----------------------------------------------------------------------------
(* writeCache called twice on the entities of one tree, each time with the   *)
(* explanations that earlier runs left: the keys of the two texts of the     *)
(* trees, in the order the runs inserted them.                               *)

CachedKeys ==
  << createExplanationCacheKey(sha256("() => 1"), "gpt-4o-mini", PROMPT_VERSION),
     createExplanationCacheKey(sha256("() => 2"), "gpt-4o-mini", PROMPT_VERSION) >>

CachedValues ==
  {[text |-> t, status |-> "ok", errorMessage |-> Undefined] : t \in Texts}
    \cup {[text |-> FailedText, status |-> "failed", errorMessage |-> e] : e \in RequestErrors}

ExplanationMaps == UNION {Reorderings(o) : o \in ObjectsOver(CachedKeys, CachedValues)}

InitSnapshotHash ==
  Given({[tree |-> t, a |-> a, b |-> b] :
           t \in Trees, a \in ExplanationMaps, b \in ExplanationMaps})

WriteTwice ==
  LET files == discoverFiles(probe.given.tree)
      ents == entitiesOf(probe.given.tree)
  IN Returns([a |-> writeCache(fileHashesOf(files), ents, probe.given.a, NoMore),
              b |-> writeCache(fileHashesOf(files), ents, probe.given.b, NoMore)])

NextSnapshotHash == WriteTwice

SpecSnapshotHash == InitSnapshotHash /\ [][NextSnapshotHash]_vars

----------------------------------------------------------------------------
(* The cache file as text: JSON.stringify writes a snapshot as a sequence of *)
(* tokens, a string or a punctuation mark each, and JSON.parse reads the     *)
(* tokens back as a tree of objects, arrays and strings.                     *)

Mark(p) == [mark |-> p]

String(text) == [string |-> text]

RECURSIVE Joined(_)
Joined(parts) ==
  IF parts = <<>> THEN <<>>
  ELSE IF Len(parts) = 1 THEN parts[1]
  ELSE parts[1] \o <<Mark(",")>> \o Joined(Tail(parts))

\* an object, given its properties as pairs of a key and the tokens of a value
Braced(members) ==
  <<Mark("{")>>
    \o Joined([n \in 1..Len(members) |-> <<String(members[n].k), Mark(":")>> \o members[n].v])
    \o <<Mark("}")>>

stringifyStrings(o) == Braced([n \in 1..Len(o) |-> [k |-> o[n].k, v |-> <<String(o[n].v)>>]])

stringifyArray(ids) ==
  <<Mark("[")>> \o Joined([n \in 1..Len(ids) |-> <<String(ids[n])>>]) \o <<Mark("]")>>

\* an explanation written without its errorMessage
stringifyExplanationWithoutMessage(value) ==
  Braced(<<[k |-> "text", v |-> <<String(value.text)>>],
           [k |-> "status", v |-> <<String(value.status)>>]>>)

\* a property whose value is undefined is left out
stringifyExplanation(value) ==
  Braced(<<[k |-> "text", v |-> <<String(value.text)>>],
           [k |-> "status", v |-> <<String(value.status)>>]>>
         \o (IF value.errorMessage = Undefined THEN <<>>
             ELSE <<[k |-> "errorMessage", v |-> <<String(value.errorMessage)>>]>>))

stringifySnapshot(snapshot) ==
  Braced(<<[k |-> "snapshotHash", v |-> <<String(snapshot.snapshotHash)>>],
           [k |-> "fileHashes", v |-> stringifyStrings(snapshot.fileHashes)],
           [k |-> "entityHashes", v |-> stringifyStrings(snapshot.entityHashes)],
           [k |-> "explanations",
            v |-> Braced([n \in 1..Len(snapshot.explanations) |->
                            [k |-> snapshot.explanations[n].k,
                             v |-> stringifyExplanation(snapshot.explanations[n].v)]])],
           [k |-> "projectSummaries", v |-> stringifyStrings(snapshot.projectSummaries)],
           [k |-> "domainClusters", v |-> stringifyStrings(snapshot.domainClusters)],
           [k |-> "lastSuccessfulSnapshot",
            v |-> Braced(<<[k |-> "entityHashes",
                            v |-> stringifyStrings(snapshot.lastSuccessfulSnapshot.entityHashes)],
                           [k |-> "entityIds",
                            v |-> stringifyArray(snapshot.lastSuccessfulSnapshot.entityIds)]>>)]>>)

IsMark(token, p) == "mark" \in DOMAIN token /\ token.mark = p

RECURSIVE parseValue(_, _), parseMembers(_, _, _), parseElements(_, _, _)
parseValue(tokens, n) ==
  IF IsMark(tokens[n], "{") THEN parseMembers(tokens, n + 1, EmptyObject)
  ELSE IF IsMark(tokens[n], "[") THEN parseElements(tokens, n + 1, <<>>)
  ELSE [value |-> tokens[n].string, next |-> n + 1]

parseMembers(tokens, n, object) ==
  IF IsMark(tokens[n], "}") THEN [value |-> object, next |-> n + 1]
  ELSE IF IsMark(tokens[n], ",") THEN parseMembers(tokens, n + 1, object)
  ELSE LET member == parseValue(tokens, n + 2)
       IN parseMembers(tokens, member.next, Put(object, tokens[n].string, member.value))

parseElements(tokens, n, array) ==
  IF IsMark(tokens[n], "]") THEN [value |-> array, next |-> n + 1]
  ELSE IF IsMark(tokens[n], ",") THEN parseElements(tokens, n + 1, array)
  ELSE LET element == parseValue(tokens, n)
       IN parseElements(tokens, element.next, Append(array, element.value))

parse(tokens) == parseValue(tokens, 1).value

\* the parsed tree read as a CacheSnapshot
asCacheSnapshot(tree) ==
  LET Field(f) == IF Has(tree, f) THEN Get(tree, f) ELSE EmptyObject
      last == Field("lastSuccessfulSnapshot")
  IN [ isNull |-> FALSE,
       has |-> KeySet(tree) \cap Fields,
       snapshotHash |-> Get(tree, "snapshotHash"),
       fileHashes |-> Field("fileHashes"),
       entityHashes |-> Field("entityHashes"),
       explanations |->
         [n \in 1..Len(Field("explanations")) |->
            [k |-> Field("explanations")[n].k,
             v |-> [text |-> Get(Field("explanations")[n].v, "text"),
                    status |-> Get(Field("explanations")[n].v, "status"),
                    errorMessage |-> Get(Field("explanations")[n].v, "errorMessage")]]],
       projectSummaries |-> Field("projectSummaries"),
       domainClusters |-> Field("domainClusters"),
       lastSuccessfulSnapshot |->
         [entityHashes |-> IF Has(last, "entityHashes") THEN Get(last, "entityHashes")
                           ELSE EmptyObject,
          entityIds |-> IF Has(last, "entityIds") THEN Get(last, "entityIds") ELSE <<>>] ]

InitRoundTrip ==
  Given({[tree |-> t, explanations |-> x] : t \in Trees, x \in ExplanationMaps})

\* writeCache, then readCache of the file it wrote
WriteThenRead ==
  LET files == discoverFiles(probe.given.tree)
      written == writeCache(fileHashesOf(files), entitiesOf(probe.given.tree),
                            probe.given.explanations, NoMore)
  IN Returns([written |-> written,
              read |-> asCacheSnapshot(parse(stringifySnapshot(written)))])

NextRoundTrip == WriteThenRead

SpecRoundTrip == InitRoundTrip /\ [][NextRoundTrip]_vars

----------------------------------------------------------------------------
(* Properties.  During a run, hist is what the last completed run left and  *)
(* run.intact says that the cache file is still the one that run wrote;     *)
(* once Reports has acted, hist.tree2 is the tree of the run before.        *)

InRun == pc \in {"loop", "await"}

KeyOf(n) == createExplanationCacheKey(entities[n].contentHash, args.model, PROMPT_VERSION)

\* entity n and its file are as the last completed run saw them
Unchanged(n) ==
  /\ run.intact
  /\ hist.tree1[entities[n].filePath] = run.tree[entities[n].filePath]
  /\ Has(hist.result1, entities[n].id)

\* C1: for every entity whose source bytes and file hash are unchanged since
\* the previous run, a run without force decides not to explain it, does not
\* call the provider for it, and gives it exactly the text it got in the
\* previous run.
C1_UnchangedEntityReusedVerbatim ==
  (InRun /\ ~args.force) =>
    \A n \in 1..Len(run.decided) :
      Unchanged(n) =>
        /\ ~run.decided[n]
        /\ n \notin run.called
        /\ n < i => explanation[n].text = Get(hist.result1, entities[n].id).text

\* the previous snapshot records a hash for some file, and not this one for p
FileHashChanged(p) ==
  /\ ~previousCache.isNull
  /\ "fileHashes" \in previousCache.has
  /\ \/ ~Has(previousCache.fileHashes, p)
     \/ Get(previousCache.fileHashes, p) # Get(fileHashes, p)

\* C2: for every entity whose file's current hash differs from, or is missing
\* in, the file hashes of the previous snapshot, shouldExplainEntity returns
\* true and the provider is invoked, whatever the snapshot records for the
\* entity's own id.
C2_ChangedFileInvalidatesItsEntities ==
  InRun =>
    \A n \in 1..Len(run.decided) :
      FileHashChanged(entities[n].filePath) => run.decided[n] /\ n \in run.called

C2_Witness ==
  /\ InRun
  /\ ~args.force
  /\ \E n \in 1..Len(run.decided) :
       /\ FileHashChanged(entities[n].filePath)
       /\ Has(previousCache.fileHashes, entities[n].filePath)
       /\ "entityHashes" \in previousCache.has
       /\ Get(previousCache.entityHashes, entities[n].id) = entities[n].contentHash
       /\ n \in run.called

\* file p had its present content two completed runs ago and another content
\* in the last completed run
Reverted(p) ==
  /\ run.intact
  /\ run.tree[p] # Absent
  /\ hist.tree2[p] = run.tree[p]
  /\ hist.tree1[p] \notin {Absent, run.tree[p]}

\* C3, as the code has it: when a file is reverted to the content it had two
\* runs ago, the entries recorded for its entities are still in the snapshot
\* the run reads, but the run without force calls the provider again for every
\* entity of the file and serves what that call gives, not the entry.
C3_RevertedFileIsRecomputed ==
  (InRun /\ ~args.force) =>
    \A n \in 1..Len(run.decided) :
      Reverted(entities[n].filePath) =>
        /\ Has(previousCache.explanations, KeyOf(n))
        /\ run.decided[n]
        /\ n \in run.called
        /\ n < i => explanation[n].status # "cached"

C3_Witness ==
  /\ InRun
  /\ ~args.force
  /\ \E n \in 1..Len(run.decided) :
       /\ Reverted(entities[n].filePath)
       /\ n < i
       /\ n \in run.called
       /\ explanation[n].text # Get(previousCache.explanations, KeyOf(n)).text

\* C3, as stated: the run after a revert does not call the provider for the
\* entities of the reverted file and serves them the recorded result.
C3_RevertHitsTheCache ==
  (InRun /\ ~args.force) =>
    \A n \in 1..Len(run.decided) :
      Reverted(entities[n].filePath) =>
        /\ n \notin run.called
        /\ n < i => /\ explanation[n].status = "cached"
                    /\ explanation[n].text = Get(previousCache.explanations, KeyOf(n)).text

\* the cache read at the start of the run is absent or lacks a field that
\* shouldExplainEntity reads
Corrupt ==
  \/ previousCache.isNull
  \/ "fileHashes" \notin previousCache.has
  \/ "entityHashes" \notin previousCache.has

\* C4: a run whose cache file is missing, unreadable, not JSON or JSON without
\* fileHashes or entityHashes does not abort, calls the provider for every
\* entity and reports every current entity as added.
C4_CorruptCacheIsAbsent ==
  (pc \in {"loop", "await", "done", "fatal"} /\ Corrupt) =>
    /\ pc = "fatal" => exit # "TypeError"
    /\ \A n \in 1..Len(run.decided) : n \in run.called
    /\ pc = "done" =>
         /\ report.changelog.addedEntities = [n \in 1..Len(entities) |-> entities[n].id]
         /\ report.changelog.removedEntities = <<>>
         /\ report.changelog.changedEntities = <<>>

\* C5: a provider call that failed in a run is recorded as failed under the
\* entity's cache key in the snapshot the run writes; the next run without
\* force does not call the provider for that entity if it is unchanged; a run
\* with force calls it for every entity.
C5_FailureCachedNotRetried ==
  /\ pc = "done" =>
       \A n \in 1..Len(entities) :
         (n \in run.called /\ explanation[n].status = "failed") =>
           /\ Has(cacheFile.json.explanations, KeyOf(n))
           /\ Get(cacheFile.json.explanations, KeyOf(n)).status = "failed"
  /\ (InRun /\ ~args.force) =>
       \A n \in 1..Len(run.decided) :
         (Unchanged(n) /\ Get(hist.result1, entities[n].id).status = "failed") =>
           n \notin run.called
  /\ (InRun /\ args.force) =>
       \A n \in 1..Len(run.decided) : n \in run.called

Failed == {n \in 1..Len(explanation) : explanation[n].status = "failed"}

\* C6: in a completed run every entity was processed, every entity whose
\* provider call succeeded has status ok and its text under its cache key in
\* the written snapshot, and the error list has exactly one entry per failed
\* entity; no failure of a provider call ends the run.
C6_FailuresIsolatedPerEntity ==
  /\ pc = "fatal" => exit \notin RequestErrors
  /\ pc = "done" =>
       /\ Len(run.decided) = Len(entities)
       /\ \A n \in 1..Len(entities) :
            (n \in run.called /\ explanation[n].status # "failed") =>
              /\ explanation[n].status = "ok"
              /\ Has(cacheFile.json.explanations, KeyOf(n))
              /\ Get(cacheFile.json.explanations, KeyOf(n)).status = "ok"
              /\ Get(cacheFile.json.explanations, KeyOf(n)).text = explanation[n].text
       /\ Len(errors) = Cardinality(Failed)
       /\ \A n \in Failed : \E j \in 1..Len(errors) : errors[j].entityId = entities[n].id

\* C7: no provider call that fails after its retries (for an entity, for the
\* project summary, for the domain clustering) ends the run before the cache
\* write.
C7_ProviderErrorsNeverAbort ==
  pc = "fatal" => exit \notin RequestErrors

\* the decision as the rules state it
ReferenceDecision(entity, hashes, previous, force) ==
  \/ force
  \/ previous.isNull
  \/ ~Has(previous.fileHashes, entity.filePath)
  \/ Get(previous.fileHashes, entity.filePath) # Get(hashes, entity.filePath)
  \/ ~Has(previous.entityHashes, entity.id)
  \/ Get(previous.entityHashes, entity.id) # entity.contentHash

\* C8: shouldExplainEntity returns, and what it returns is the reference
\* decision: true iff force is set, or there is no previous snapshot, or the
\* snapshot has no hash for the entity's file or another hash than the
\* current one, or it has no entry for the entity's id or another entry than
\* the entity's content hash.
C8_DecisionIsTheReference ==
  pc = "decided" =>
    /\ exit = "returned"
    /\ run.decided = <<ReferenceDecision(entities[1], fileHashes, previousCache, args.force)>>
    /\ args.force => run.decided = <<TRUE>>

C8_Witness ==
  /\ pc = "decided"
  /\ run.decided = <<FALSE>>
  /\ Has(previousCache.fileHashes, entities[1].filePath)
  /\ Get(previousCache.entityHashes, entities[1].id) = entities[1].contentHash

\* the previous cache was read and has its explanations
Readable == ~previousCache.isNull /\ "explanations" \in previousCache.has

\* C9: in a completed run whose previous cache was readable, every key of the
\* previous snapshot's explanations is a key of the written snapshot's, with
\* the same value unless the provider was invoked in this run for an entity
\* with that key.
C9_ExplanationsMergedForward ==
  (pc = "done" /\ Readable) =>
    \A k \in KeySet(previousCache.explanations) :
      /\ Has(cacheFile.json.explanations, k)
      /\ \/ Get(cacheFile.json.explanations, k) = Get(previousCache.explanations, k)
         \/ \E n \in run.called : KeyOf(n) = k

C9_Witness ==
  /\ pc = "done"
  /\ Readable
  /\ \E k \in KeySet(previousCache.explanations) :
       /\ \A n \in 1..Len(entities) : KeyOf(n) # k
       /\ Has(cacheFile.json.explanations, k)
  /\ \E n \in run.called : Has(previousCache.explanations, KeyOf(n))

\* entity e of this run is entity o of the run before under a new name
Renamed(o, e) ==
  /\ o.filePath = e.filePath
  /\ o.snippet = e.snippet
  /\ o.loc = e.loc
  /\ o.name # e.name

\* C10: when an entity is renamed between two consecutive runs (same file,
\* same body and span), its id changes and the changelog of the second run
\* has the new id in addedEntities, the old id in removedEntities and neither
\* in changedEntities.
C10_RenameIsAddedAndRemoved ==
  (pc = "done" /\ run.intact) =>
    \A o \in Range(entitiesOf(hist.tree2)), e \in Range(entities) :
      Renamed(o, e) =>
        /\ e.id # o.id
        /\ e.id \in Range(report.changelog.addedEntities)
        /\ o.id \in Range(report.changelog.removedEntities)
        /\ {e.id, o.id} \cap Range(report.changelog.changedEntities) = {}

C10_Witness ==
  /\ pc = "done"
  /\ run.intact
  /\ \E o \in Range(entitiesOf(hist.tree2)), e \in Range(entities) :
       Renamed(o, e) /\ o.id \in Range(report.changelog.removedEntities)

NoDuplicates(seq) == Cardinality(Range(seq)) = Len(seq)

\* C11: buildChangelog returns the reference diff.  Without a previous
\* snapshot, or without its lastSuccessfulSnapshot, added is the current ids
\* and removed and changed are empty; otherwise added is the current ids
\* absent before, removed the previous ids absent now, changed the ids in both
\* whose digests differ; added and changed are disjoint sets of current ids
\* and removed has no current id.
C11_ChangelogIsTheReferenceDiff ==
  HasReturned =>
    LET out == probe.returned[1]
        cur == probe.given.current
        previous == probe.given.previous
        now == KeySet(cur)
        prev == previous.lastSuccessfulSnapshot.entityHashes
    IN /\ NoDuplicates(out.addedEntities)
       /\ NoDuplicates(out.removedEntities)
       /\ NoDuplicates(out.changedEntities)
       /\ IF previous.isNull \/ "lastSuccessfulSnapshot" \notin previous.has
          THEN /\ Range(out.addedEntities) = now
               /\ Len(out.addedEntities) = Len(cur)
               /\ out.removedEntities = <<>>
               /\ out.changedEntities = <<>>
          ELSE /\ Range(out.addedEntities) = now \ KeySet(prev)
               /\ Range(out.removedEntities) = KeySet(prev) \ now
               /\ Range(out.changedEntities) =
                    {id \in now \cap KeySet(prev) : Get(prev, id) # Get(cur, id)}
       /\ Range(out.addedEntities) \cap Range(out.changedEntities) = {}
       /\ Range(out.addedEntities) \cup Range(out.changedEntities) \subseteq now
       /\ Range(out.removedEntities) \cap now = {}

C11_Witness ==
  /\ HasReturned
  /\ probe.returned[1].addedEntities # <<>>
  /\ probe.returned[1].removedEntities # <<>>
  /\ probe.returned[1].changedEntities # <<>>

\* the entities of the run have the ids and hashes of the entities of the
\* completed run before it
SameEntitiesAsBefore ==
  /\ run.intact
  /\ Range(EntityHashesOf(entitiesOf(hist.tree2))) = Range(EntityHashesOf(entities))

EmptyChangelog(changelog) ==
  /\ changelog.addedEntities = <<>>
  /\ changelog.removedEntities = <<>>
  /\ changelog.changedEntities = <<>>

\* C12: the snapshot a run writes has as lastSuccessfulSnapshot exactly the
\* ids and content hashes of the run's entities, failed provider calls or not;
\* and a completed run whose entities have the ids and hashes of the completed
\* run before it reports nothing added, removed or changed.
C12_WriteSetsTheBaseline ==
  pc = "done" =>
    /\ cacheFile.json.lastSuccessfulSnapshot.entityHashes = EntityHashesOf(entities)
    /\ cacheFile.json.lastSuccessfulSnapshot.entityIds =
         [n \in 1..Len(entities) |-> entities[n].id]
    /\ SameEntitiesAsBefore => EmptyChangelog(report.changelog)

C12_Witness ==
  /\ pc = "done"
  /\ SameEntitiesAsBefore
  /\ Failed # {}
  /\ EmptyChangelog(report.changelog)

\* the fields of an entity that its id is made of
IdFields(e) == <<e.filePath, e.name, e.kind, e.loc.startLine, e.loc.endLine, e.snippet>>

\* C13: two entities get the same id exactly when their field tuples
\* (filePath, name, kind, startLine, endLine, rawSource) are equal.
C13_IdInjectiveInItsFields ==
  HasReturned =>
    LET a == probe.returned[1].a
        b == probe.returned[1].b
    IN (a.id = b.id) <=> (IdFields(a) = IdFields(b))

\* C14: two cache keys are equal exactly when their triples (contentDigest,
\* model, promptVersion) are equal.
C14_KeyInjectiveInItsFields ==
  HasReturned =>
    ((probe.returned[1].a = probe.returned[1].b) <=> (probe.given.a = probe.given.b))

\* the pattern, compiled on its own, matches the relative path
Matches(pattern, rel) == some(compilePatterns(<<pattern>>), rel)

MatchedBySome(patterns, rel) == \E n \in 1..Len(patterns) : Matches(patterns[n], rel)

\* C15: discoverFiles selects a file exactly when some include pattern and no
\* exclude pattern matches its relative path, and every reordering of the
\* include list and of the exclude list selects the same files.
C15_SelectedIffIncludedAndNotExcluded ==
  HasReturned /\ "include" \in DOMAIN probe.given =>
    /\ \A n \in 1..Len(Listing) :
         (Listing[n] \in Range(probe.returned[1].selected))
           <=> (/\ MatchedBySome(probe.given.include, Listing[n])
                /\ ~MatchedBySome(probe.given.exclude, Listing[n]))
    /\ probe.returned[1].reordered = {probe.returned[1].selected}

\* two include patterns and two exclude patterns; a file that both lists
\* match is left out and another file is selected
C15_Witness ==
  /\ HasReturned /\ "include" \in DOMAIN probe.given
  /\ Len(probe.given.include) = 2 /\ probe.given.include[1] # probe.given.include[2]
  /\ Len(probe.given.exclude) = 2 /\ probe.given.exclude[1] # probe.given.exclude[2]
  /\ \E n \in 1..Len(Listing) :
       /\ MatchedBySome(probe.given.include, Listing[n])
       /\ MatchedBySome(probe.given.exclude, Listing[n])
       /\ Listing[n] \notin Range(probe.returned[1].selected)
  /\ probe.returned[1].selected # <<>>

\* the token semantics of a glob: "**/" is zero or more whole segments, a
\* trailing "**" is the remainder, "*" is a run without a separator, any other
\* character is itself
RECURSIVE GlobMatches(_, _)
GlobMatches(pattern, rel) ==
  LET From(n) == SubSeq(rel, n + 1, Len(rel))
      Starts(token) == Len(pattern) >= Len(token) /\ SubSeq(pattern, 1, Len(token)) = token
  IN IF pattern = <<>> THEN rel = <<>>
     ELSE IF Starts(<<"*", "*", "/">>)
     THEN \E n \in 0..Len(rel) :
            /\ n = 0 \/ rel[n] = "/"
            /\ GlobMatches(SubSeq(pattern, 4, Len(pattern)), From(n))
     ELSE IF pattern = <<"*", "*">> THEN TRUE
     ELSE IF Starts(<<"*">>)
     THEN \E n \in 0..Len(rel) :
            /\ NoSlash(SubSeq(rel, 1, n))
            /\ GlobMatches(Tail(pattern), From(n))
     ELSE rel # <<>> /\ rel[1] = pattern[1] /\ GlobMatches(Tail(pattern), Tail(rel))

\* C16: for every pattern and every relative path, the compiled pattern
\* matches the path exactly when the token semantics of the glob say so.
C16_GlobAgreesWithTokenSemantics ==
  HasReturned => (probe.returned[1] <=> GlobMatches(probe.given.pattern, probe.given.rel))

\* the patterns a pattern stands for: every group replaced by one of its
\* alternatives
RECURSIVE Alternatives(_)
Alternatives(pattern) ==
  IF \A n \in 1..Len(pattern) : BraceMatchEnd(pattern, n) = 0 THEN {pattern}
  ELSE UNION {Alternatives(one) : one \in Range(expandBraces(pattern))}

\* C17: a pattern with brace groups matches the paths that one of its
\* alternatives matches, each group replaced by one of its entries.
C17_BracesMatchTheUnionOfAlternatives ==
  HasReturned =>
    (probe.returned[1]
       <=> \E one \in Alternatives(probe.given.pattern) :
             test(globToRegex(one), probe.given.rel))

\* C18: buildGraph returns the files and the edges as given when the files
\* are at most maxNodes; otherwise the first maxNodes files, and the edges
\* between them in the order given.
C18_GraphIsTheReferenceTruncation ==
  HasReturned =>
    LET files == probe.given.files
        edges == probe.given.edges
        maxNodes == probe.given.maxNodes
        graph == probe.returned[1]
        first == IF maxNodes <= 0 THEN <<>> ELSE SubSeq(files, 1, maxNodes)
    IN IF Len(files) <= maxNodes
       THEN graph = [nodes |-> files, edges |-> edges, truncated |-> FALSE,
                     omittedNodeCount |-> 0]
       ELSE /\ graph.nodes = first
            /\ graph.edges = SelectEdges(edges, Range(first))
            /\ graph.truncated

\* C19: the omitted and the kept nodes add up to the files, nothing is omitted
\* exactly when the graph is not truncated, and it is truncated exactly when
\* the files are more than maxNodes.
C19_OmittedCountIsExact ==
  HasReturned =>
    LET graph == probe.returned[1]
    IN /\ graph.omittedNodeCount + Len(graph.nodes) = Len(probe.given.files)
       /\ (graph.omittedNodeCount = 0) <=> ~graph.truncated
       /\ graph.truncated <=> (Len(probe.given.files) > probe.given.maxNodes)

\* the requests, the failures and the sleeps of the log
Events(kind) == {n \in 1..Len(probe.log) : probe.log[n].event = kind}

\* the log of a call with f failed attempts so far: request 1, failure, sleep
\* of 250, request 2, failure, sleep of 500, request 3, failure
RetryLogIsBounded ==
  LET log == probe.log
      requests == Events("request")
      failures == Events("failure")
  IN /\ Cardinality(requests) <= 3
     /\ \A n \in requests : log[n].attempt = Cardinality({m \in requests : m <= n})
     /\ \A n \in Events("success") : n = Len(log) /\ log[n].text # ""
     /\ \A n \in failures :
          LET attempt == Cardinality({m \in requests : m < n})
          IN IF attempt < 3
             THEN /\ n < Len(log) /\ log[n + 1] = Sleep(250 * attempt)
                  /\ n + 2 <= Len(log) => log[n + 2] = Request(attempt + 1)
             ELSE n = Len(log)
     /\ \A n \in Events("sleep") : n - 1 \in failures
     /\ \A n \in requests : n = 1 \/ log[n - 1].event = "sleep"

RetryOutcomeIsRight ==
  probe.at = "done" =>
    LET log == probe.log
        failures == Events("failure")
    IN /\ Cardinality(Events("request")) >= 1
       /\ "thrown" \in DOMAIN probe.returned[1] <=> Cardinality(failures) = 3
       /\ "thrown" \in DOMAIN probe.returned[1] =>
            probe.returned[1].thrown = log[Len(log)].error
       /\ "value" \in DOMAIN probe.returned[1] =>
            probe.returned[1].value = log[Len(log)].text

\* C20: one explainEntity call sends one to three requests and none after the
\* first text that is not empty, sleeps 250 ms times the attempt number after
\* a failed attempt that is not the third, throws the last error exactly when
\* three attempts failed, and comes to an end.
C20_RetryIsBoundedAndTerminates ==
  /\ [](RetryLogIsBounded /\ RetryOutcomeIsRight)
  /\ <>(probe.at = "done")

\* three attempts failed, the last one with an empty response after a sleep
\* of 500 ms, and the call threw that failure
C20_Witness ==
  /\ probe.given = <<"explainEntity">>
  /\ probe.at = "done"
  /\ Len(probe.log) = 8
  /\ probe.log[2] = Failure("timeout")
  /\ probe.log[6] = Sleep(500)
  /\ probe.returned = <<[thrown |-> EmptyResponse]>>

\* C29: in every graph buildGraph returns, both ends of every edge are nodes
\* of the graph.
C29_GraphIsClosed ==
  HasReturned =>
    LET graph == probe.returned[1]
    IN \A n \in 1..Len(graph.edges) :
         /\ graph.edges[n].from \in Range(graph.nodes)
         /\ graph.edges[n].to \in Range(graph.nodes)

\* C30: for every file list and every integer maxNodes, the graph has at most
\* max(maxNodes, 0) nodes.
C30_NodeBudgetIsRespected ==
  HasReturned =>
    Len(probe.returned[1].nodes)
      <= (IF probe.given.maxNodes > 0 THEN probe.given.maxNodes ELSE 0)

\* the entities the provider was called for and failed in this run
FailedInRun == {n \in run.called : n <= Len(run.decided) /\ explanation[n].status = "failed"}

\* the step that serves entity i from a cache entry recording a failure
ServesFailure ==
  /\ InLoop /\ pc' = "loop" /\ i' = i + 1
  /\ Has(explanationCache, Key)
  /\ Get(explanationCache, Key).status = "failed"

\* C28: an entity served from a cache entry that records a failure gets the
\* status cached with the placeholder text and the recorded message, and the
\* error list stays as it is; an entity has status failed only if the
\* provider was called for it in this run, and the report counts those only.
C28_CachedFailureIsNotReported ==
  /\ [][ServesFailure =>
         /\ explanation'[i] = [text |-> FailedText, status |-> "cached",
                               errorMessage |-> Get(explanationCache, Key).errorMessage]
         /\ errors' = errors]_vars
  /\ [](InRun \/ pc = "done" =>
         /\ \A n \in 1..Len(run.decided) : explanation[n].status = "failed" => n \in run.called
         /\ Len(errors) = Cardinality(FailedInRun)
         /\ pc = "done" => report.llmFailedCount = Cardinality(FailedInRun))

\* a completed run served an entity the failure that the cache records and
\* reports no failure
C28_Witness ==
  /\ pc = "done"
  /\ \E n \in 1..Len(entities) :
       /\ n \notin run.called
       /\ explanation[n] = [text |-> FailedText, status |-> "cached", errorMessage |-> "timeout"]
  /\ report.llmFailedCount = 0
  /\ errors = <<>>

\* C27: in every run whose previous snapshot the pipeline wrote, no entity
\* is reported as changed: an edit is one removed id and one added id.
C27_NothingIsEverChanged ==
  HasReturned => probe.returned[1].changelog.changedEntities = <<>>

\* C26: two writeCache calls whose fileHashes, entityHashes and explanations
\* hold the same key-value pairs give the same snapshotHash, in whatever
\* order the pairs were inserted.
C26_SnapshotHashIgnoresInsertionOrder ==
  HasReturned =>
    LET a == probe.returned[1].a
        b == probe.returned[1].b
    IN (/\ Range(a.fileHashes) = Range(b.fileHashes)
        /\ Range(a.entityHashes) = Range(b.entityHashes)
        /\ Range(a.explanations) = Range(b.explanations))
         => a.snapshotHash = b.snapshotHash

\* C22: the snapshot read from the file writeCache just wrote has the
\* fileHashes, entityHashes and explanations that writeCache was given and
\* returned.
C22_CacheRoundTrip ==
  HasReturned =>
    LET written == probe.returned[1].written
        read == probe.returned[1].read
        files == discoverFiles(probe.given.tree)
    IN /\ ~read.isNull
       /\ read.fileHashes = written.fileHashes
       /\ read.entityHashes = written.entityHashes
       /\ read.explanations = written.explanations
       /\ written.fileHashes = fileHashesOf(files)
       /\ written.entityHashes = EntityHashesOf(entitiesOf(probe.given.tree))
       /\ written.explanations = probe.given.explanations

\* a snapshot of two entities and two explanations, a failure with its
\* message and a text, was written and read back
C22_Witness ==
  /\ HasReturned
  /\ Len(probe.returned[1].read.entityHashes) = 2
  /\ Len(probe.returned[1].read.explanations) = 2
  /\ \E n \in 1..2 : probe.returned[1].read.explanations[n].v.status = "failed"
  /\ \E n \in 1..2 : probe.returned[1].read.explanations[n].v.errorMessage = Undefined

\* the process is between its start and its end
Running == pc \notin {"idle", "done", "fatal"}

\* what a step of the program may do to the cache file
TouchesOnlyAtTheEnd ==
  /\ (Running /\ cacheFile' # cacheFile) =>
       (AtReports /\ call = NoCall /\ pc' = "done" /\ report'.written)
  /\ (pc' = "fatal") => (cacheFile' = cacheFile)
  /\ ("write" \in Range(run'.accesses) /\ "write" \notin Range(run.accesses)) =>
       (cacheFile'.state = "json" /\ pc' = "done")

AccessesInOrder ==
  /\ Running => (run.accesses = <<"read">>)
  /\ (pc = "done") => (run.accesses = <<"read", "write">>)
  /\ (pc = "fatal") => (run.accesses \in {<<>>, <<"read">>})

\* C23: a run reads the cache file once, before any provider call, and
\* writes it at most once, in the step that has produced the reports after
\* the last provider call; every other step of a run, a step that aborts it
\* included, leaves the file as it is.
C23_CacheTouchedAtTheTwoEnds == []AccessesInOrder /\ [][TouchesOnlyAtTheEnd]_vars

\* a run that read a cache file written by an earlier run called the
\* provider, failed to write its reports and left the file as it was
C23_Witness ==
  /\ pc = "fatal" /\ exit = "EIO"
  /\ run.called # {}
  /\ run.accesses = <<"read">>
  /\ cacheFile.state = "json"
  /\ previousCache = cacheFile.json

\* the provider call of entity i is outstanding
Outstanding == pc = "await" /\ call.kind = "explainEntity"

CallsInListOrder ==
  /\ (pc = "loop") => (call = NoCall /\ Len(run.decided) = i - 1 /\ \A j \in run.called : j < i)
  /\ Outstanding => (Len(run.decided) = i /\ i \in run.called /\ \A j \in run.called : j <= i)
  /\ (call # NoCall) => (pc = "await")

OneCallAtATime ==
  /\ (~Stopped /\ run'.called # run.called) =>
       (pc = "loop" /\ call = NoCall /\ run'.called = run.called \cup {i} /\ i' = i /\ Outstanding')
  /\ (~Stopped /\ ~Stopped') => (i' \in {i, i + 1})
  /\ (Outstanding /\ Outstanding') =>
       (i' = i /\ explanationCache' = explanationCache /\ explanation' = explanation)
  /\ (~Stopped /\ (explanationCache' # explanationCache \/ explanation' # explanation)) =>
       (/\ pc' = "loop" /\ call' = NoCall /\ i' = i + 1
        /\ explanationCache' # explanationCache => Outstanding)

\* C24: the provider is called for one entity at a time and in list order:
\* a call starts only when none is outstanding, for the entity the loop is
\* at, and every earlier entity has been decided; while a call is outstanding,
\* retries included, the explanations map and the loop index stay as they are;
\* the map changes only in the step of the loop that takes the call's result.
C24_ProviderCallsAreSequential == []CallsInListOrder /\ [][OneCallAtATime]_vars

C24_Witness ==
  /\ Outstanding /\ i = 2 /\ call.attempt = maxAttempts
  /\ run.called = {1, 2}
  /\ explanation[1].status = "failed"

----------------------------------------------------------------------------
(* cli.ts 141-188: the loop of main() over one entity list in two orders *)

\* config.llm.model of the previous run and of this run
LoopModels == {"gpt-4o-mini", "gpt-4.1"}

\* cli.ts 168, 176: the entry the loop records for a call
Recorded(failed) ==
  IF failed THEN [text |-> FailedText, status |-> "failed", errorMessage |-> "e1"]
  ELSE [text |-> "t1", status |-> "ok", errorMessage |-> Undefined]

\* cli.ts 145-188: the loop from the map, the ids of the entities the provider
\* was called for and the keys stored so far
RECURSIVE loopCalls(_, _, _, _, _, _, _)
loopCalls(ents, hashes, previous, force, model, failed, sofar) ==
  IF ents = <<>> THEN sofar
  ELSE LET entity == Head(ents)
           shouldExplain == shouldExplainEntity(entity, hashes, previous, force)
           key == createExplanationCacheKey(entity.contentHash, model, PROMPT_VERSION)
       IN IF shouldExplain.threw THEN [sofar EXCEPT !.threw = TRUE]
          ELSE IF ~shouldExplain.value /\ Has(sofar.cache, key)
          THEN loopCalls(Tail(ents), hashes, previous, force, model, failed, sofar)
          ELSE loopCalls(Tail(ents), hashes, previous, force, model, failed,
                         [sofar EXCEPT !.cache = Put(@, key, Recorded(failed)),
                                       !.called = @ \cup {entity.id},
                                       !.keys = @ \cup {key}])

\* cli.ts 140-188: explanationCache from the previous snapshot, then the loop
explainAll(ents, hashes, previous, force, model, failed) ==
  loopCalls(ents, hashes, previous, force, model, failed,
            [cache |-> previousExplanations(previous), called |-> {}, keys |-> {},
             threw |-> FALSE])

\* cli.ts 140-188 for one order of the entities
calledFor(ents, hashes, previous, force, model, failed) ==
  explainAll(ents, hashes, previous, force, model, failed).called

\* the map a completed run with one model leaves: one entry per content digest
RECURSIVE explainedWith(_, _, _)
explainedWith(ents, model, cache) ==
  IF ents = <<>> THEN cache
  ELSE explainedWith(Tail(ents), model,
                     Put(cache, createExplanationCacheKey(Head(ents).contentHash, model,
                                                          PROMPT_VERSION), Recorded(FALSE)))

\* what readCache returns in a run that follows a completed run on a tree
snapshotAfter(tree, model) ==
  readCache([state |-> "json",
             json |-> writeCache(fileHashesOf(discoverFiles(tree)), entitiesOf(tree),
                                 explainedWith(entitiesOf(tree), model, EmptyObject), NoMore)])

LoopInputs(tree) ==
  {[before |-> before, tree |-> tree, was |-> was, model |-> model, force |-> force,
    failed |-> failed, first |-> first, second |-> second] :
     before \in Trees, was \in LoopModels, model \in LoopModels,
     force \in BOOLEAN, failed \in BOOLEAN,
     first \in Reorderings(entitiesOf(tree)), second \in Reorderings(entitiesOf(tree))}

InitLoopOrder == Given(UNION {LoopInputs(tree) : tree \in Trees})

LoopInBothOrders ==
  LET g == probe.given
      hashes == fileHashesOf(discoverFiles(g.tree))
      previous == snapshotAfter(g.before, g.was)
  IN Returns([first |-> calledFor(g.first, hashes, previous, g.force, g.model, g.failed),
              second |-> calledFor(g.second, hashes, previous, g.force, g.model, g.failed)])

NextLoopOrder == LoopInBothOrders

SpecLoopOrder == InitLoopOrder /\ [][NextLoopOrder]_vars

\* C25: with the previous snapshot, the file hashes, the model, the prompt
\* version and the entities fixed, the loop calls the provider for the same
\* set of entities in whichever order it takes them.
C25_CalledSetIgnoresOrder ==
  HasReturned => (probe.returned[1].first = probe.returned[1].second)

----------------------------------------------------------------------------
(* Two processes of cli.ts on one repository.  cacheFile is the file they   *)
(* share; probe.procs holds what each main() keeps in memory, probe.log the  *)
(* order of their reads and writes of the file.                              *)

Procs == {1, 2}

NoProc ==
  [at |-> "start", tree |-> NoTree, model |-> "", force |-> FALSE, previous |-> NullCache,
   explanationCache |-> EmptyObject, keys |-> {}, wrote |-> NullCache]

\* the file before the two processes start: none, or the one an earlier run left
FilesBefore ==
  {[state |-> "missing", json |-> NullCache],
   [state |-> "json", json |-> snapshotAfter(Tree(srcFH, Absent), "gpt-4o-mini")]}

InitTwoProcs ==
  /\ main = "cli.ts"
  /\ cacheFile \in FilesBefore
  /\ pc = "idle"
  /\ args = [force |-> FALSE, model |-> "gpt-4o-mini"]
  /\ fileHashes = EmptyObject
  /\ entities = <<>>
  /\ explanation = <<>>
  /\ previousCache = NullCache
  /\ explanationCache = EmptyObject
  /\ errors = <<>>
  /\ i = 1
  /\ call = NoCall
  /\ extras = NoExtras
  /\ report = NoReport
  /\ exit = "none"
  /\ run = NoRun
  /\ hist = NoHist
  /\ probe = [given |-> <<>>, returned |-> <<>>, procs |-> [p \in Procs |-> NoProc],
              log |-> <<>>]

\* cli.ts 115-140: discovery, parsing and readCache of process p
ProcReads(p, tree, model, force) ==
  /\ probe.procs[p].at = "start"
  /\ probe' = [probe EXCEPT
                 !.procs[p] = [@ EXCEPT !.at = "loop", !.tree = tree, !.model = model,
                                        !.force = force,
                                        !.previous = readCache(cacheFile)],
                 !.log = Append(@, [proc |-> p, access |-> "read"])]
  /\ UNCHANGED <<main, cacheFile, pc, args, fileHashes, entities, explanation, previousCache,
                 explanationCache, errors, i, call, extras, report, exit, run, hist>>

\* cli.ts 140-220: the loop and the reports of process p, which leave the file alone
ProcExplains(p, failed) ==
  /\ probe.procs[p].at = "loop"
  /\ LET me == probe.procs[p]
         done == explainAll(entitiesOf(me.tree), fileHashesOf(discoverFiles(me.tree)),
                            me.previous, me.force, me.model, failed)
     IN probe' = [probe EXCEPT
                    !.procs[p] = [@ EXCEPT !.at = "write", !.explanationCache = done.cache,
                                           !.keys = done.keys]]
  /\ UNCHANGED <<main, cacheFile, pc, args, fileHashes, entities, explanation, previousCache,
                 explanationCache, errors, i, call, extras, report, exit, run, hist>>

\* what writeCache of process p puts in the file
SnapshotOf(me) ==
  writeCache(fileHashesOf(discoverFiles(me.tree)), entitiesOf(me.tree), me.explanationCache,
             NoMore)

\* ProcWrites reading the file again and keeping the entries it finds there
ProcWritesMerged(p) ==
  /\ probe.procs[p].at = "write"
  /\ LET me == probe.procs[p]
         onDisk == previousExplanations(readCache(cacheFile))
         merged == onDisk \o Filter(me.explanationCache,
                                    {e \in Range(me.explanationCache) : ~Has(onDisk, e.k)})
         snapshot == SnapshotOf([me EXCEPT !.explanationCache = merged])
     IN /\ cacheFile' = [state |-> "json", json |-> snapshot]
        /\ probe' = [probe EXCEPT
                       !.procs[p] = [@ EXCEPT !.at = "done", !.wrote = snapshot],
                       !.log = Append(@, [proc |-> p, access |-> "write"])]
  /\ UNCHANGED <<main, pc, args, fileHashes, entities, explanation, previousCache,
                 explanationCache, errors, i, call, extras, report, exit, run, hist>>

\* cli.ts 222, cache.ts 78-80: writeCache of process p replaces the whole file
ProcWrites(p) ==
  /\ probe.procs[p].at = "write"
  /\ LET snapshot == SnapshotOf(probe.procs[p])
     IN /\ cacheFile' = [state |-> "json", json |-> snapshot]
        /\ probe' = [probe EXCEPT
                       !.procs[p] = [@ EXCEPT !.at = "done", !.wrote = snapshot],
                       !.log = Append(@, [proc |-> p, access |-> "write"])]
  /\ UNCHANGED <<main, pc, args, fileHashes, entities, explanation, previousCache,
                 explanationCache, errors, i, call, extras, report, exit, run, hist>>

NextTwoProcs ==
  \E p \in Procs :
    \/ \E tree \in Trees, model \in LoopModels, force \in BOOLEAN :
         ProcReads(p, tree, model, force)
    \/ \E failed \in BOOLEAN : ProcExplains(p, failed)
    \/ ProcWrites(p)

SpecTwoProcs == InitTwoProcs /\ [][NextTwoProcs]_vars

BothDone == "procs" \in DOMAIN probe /\ \A p \in Procs : probe.procs[p].at = "done"

\* both processes read the file before either wrote it
Overlapped ==
  /\ BothDone
  /\ probe.log[1].access = "read" /\ probe.log[2].access = "read"

\* the first write was over before the other process read
Serialized ==
  /\ BothDone
  /\ probe.log[2].access = "write"

Later == probe.procs[probe.log[4].proc]

Earlier == probe.procs[3 - probe.log[4].proc]

\* the keys the later writer had in memory: those it read and those it stored
KnownToLater == KeySet(previousExplanations(Later.previous)) \cup Later.keys

\* the entries of the earlier writer's snapshot the later writer never saw
OnlyEarlier == KeySet(Earlier.wrote.explanations) \ KnownToLater

\* C21: when both processes read the file before either writes it, the file
\* they leave is the later writer's snapshot, every entry of it is one the
\* later writer read or stored itself, and no entry that only the earlier
\* writer had is in it; when one process finishes before the other reads,
\* every entry of the earlier snapshot is in the final file, unchanged unless
\* the later run stored that key again.
C21_OverlapLosesSerialKeeps ==
  /\ Overlapped =>
       /\ cacheFile = [state |-> "json", json |-> Later.wrote]
       /\ Later.wrote = SnapshotOf(Later)
       /\ KeySet(cacheFile.json.explanations) = KnownToLater
       /\ \A key \in OnlyEarlier : ~Has(cacheFile.json.explanations, key)
  /\ Serialized =>
       /\ cacheFile = [state |-> "json", json |-> Later.wrote]
       /\ Later.previous = Earlier.wrote
       /\ \A key \in KeySet(Earlier.wrote.explanations) :
            /\ Has(cacheFile.json.explanations, key)
            /\ key \notin Later.keys =>
                 Get(cacheFile.json.explanations, key) = Get(Earlier.wrote.explanations, key)

\* a lost update: the two runs overlapped and an entry of the earlier writer
\* is gone
C21_Witness == Overlapped /\ OnlyEarlier # {} /\ Earlier.keys \cap OnlyEarlier # {}

====
